---- MODULE Spec2Model ----
(***************************************************************************)
(* The multi-provider AI gateway of src/ai/ai.ts as a state machine.       *)
(*                                                                         *)
(* Ten specifications share the variables of this module:                  *)
(*   SpecRetry  the retrying HTTP client (axiosWithRetry, shouldRetry);     *)
(*   SpecStore  the debounced, "atomic" persistence (Store.writeSoon,       *)
(*              atomicWriteJSON) with a clock for the debounce delay;       *)
(*   Spec       the compatibility resolver, the model catalog, the         *)
(*              load-time migration and the configuration commands;        *)
(*   SpecHist   the conversation histories (pushHist,                      *)
(*              pruneGlobalHistories);                                     *)
(*   SpecAuth   the auth attempts of an adapter call (tryPostJSON);        *)
(*   SpecGem    the version paths of a Gemini request                      *)
(*              (geminiRequestWithFallback);                               *)
(*   SpecBuild  the list of auth attempts of a provider (buildAuthAttempts *)
(*              of src/ai/ai.ts and of src/cg/cg.ts);                      *)
(*   SpecText   the chunking of an answer (splitMessage, buildChunks);     *)
(*   SpecCalls  concurrent calls of callChat on the histories;             *)
(*   SpecInit   Store.init called by several handlers at once.             *)
(* Each specification leaves the variables of the other parts unchanged.   *)
(***************************************************************************)
EXTENDS Integers, Sequences, FiniteSets, TLC

None == "none"
Min(a, b) == IF a <= b THEN a ELSE b
Max(a, b) == IF a >= b THEN a ELSE b

(***************************************************************************)
(* The state                                                               *)
(***************************************************************************)
\* The retrying HTTP client
VARIABLES
    tries,      \* axiosWithRetry: the retry budget (parameter tries)
    attempt,    \* axiosWithRetry: let attempt
    lastErr,    \* axiosWithRetry: let lastErr, NoErr while undefined
    retryPc,    \* where the call is: "request", "sleep", "returned", "thrown"
    thrown,     \* the error the call was rejected with, NoErr otherwise
    requests,   \* history: number of axios(baseConfig) attempts made
    sleeps,     \* history: number of backoff waits begun
    allRetryable \* history: every attempt so far failed with a retryable error

retryVars == <<tries, attempt, lastErr, retryPc, thrown, requests, sleeps, allRetryable>>

\* Debounced persistence
VARIABLES
    alive,       \* the process is running (FALSE after a crash)
    mem,         \* Store.data, as the number of mutations made to it so far
    writeTimer,  \* Store._writeTimer: 0 for null, else the timer it refers to
    timers,      \* the timers made by writeSoon, armed or running their callback
    sinceMut,    \* milliseconds since the last writeSoon call, capped at the delay
    inodes,      \* the contents of the files, by inode
    tmpIno,      \* the inode config.json.tmp names, 0 when the path does not exist
    targetIno,   \* the inode config.json names, 0 when the path does not exist
    burstWrites, \* history: callbacks begun by timers that the current burst armed
    writeBeforeLast \* history: a burst's write began before the burst's last call

storeVars == <<alive, mem, writeTimer, timers, sinceMut, inodes, tmpIno, targetIno,
               burstWrites, writeBeforeLast>>

\* The compatibility resolver, the model catalog and the configuration
VARIABLES
    initPc,          \* Store.init: "unloaded" (Store.db is null), "loading" (awaiting
                     \* JSONFilePreset), "migrating" (db set, awaiting the refresh of
                     \* the version 3 migration), "ready"
    persisted,       \* the document config.json holds when the process starts
    providers,       \* Store.data.providers: the provider names, in key order
    models,          \* Store.data.models: kind -> the selected provider and model
    modelCompat,     \* Store.data.modelCompat: provider -> lower-cased model -> compat
    catalog,         \* Store.data.modelCatalog.map: lower-cased model -> compat
    compatResolving, \* the map compatResolving: key -> the probe task registered, 0 for none
    probes,          \* the probe tasks of resolveCompat that are in flight
    refreshTimers,   \* pending setTimeout(..., 0) callbacks that call refreshModelCatalog(false)
    refreshing,      \* catalogInflight.refreshing
    lastPromise,     \* catalogInflight.lastPromise: the refresh it refers to, 0 for null
    refreshes,       \* the refreshModelCatalog works that are in flight
    manual,          \* history: the overrides set by "model set ... <compat>" and not
                     \* removed by a configuration command since
    lastRet,         \* history: what resolveCompat last returned for a pair, since the
                     \* last configuration command
    unstable,        \* history: a call returned another value than an earlier call did
    overrideIgnored, \* history: a call returned another value than the manual override
    joinedStale,     \* history: a call joined a probe older than a command on its provider
    tainted,         \* history: "config remove all" ran while a probe for the pair was in flight
    commands,        \* the number of commands handled so far
    probeLog         \* history: for a pair, the probe that completed last since the
                     \* last configuration command, and what followed it

compatVars == <<initPc, persisted, providers, models, modelCompat, catalog, compatResolving,
                probes, refreshTimers, refreshing, lastPromise, refreshes, manual, lastRet,
                unstable, overrideIgnored, joinedStale, tainted, commands, probeLog>>

\* The conversation histories
VARIABLES
    histories,   \* Store.data.histories: session id -> its turns
    histMeta,    \* Store.data.histMeta: session id -> lastAt in ms
    histLog,     \* history: the turns appended to a session since it was created
    lastId,      \* history: the session of the last pushHist, 0 before the first
    evicted,     \* history: the sessions the last pushHist evicted
    evictedMax,  \* history: the newest lastAt among the sessions it evicted
    keptMin,     \* history: the oldest lastAt among the sessions it kept
    lastNewest,  \* history: the written session had the newest lastAt of all
    pushes       \* history: the number of pushHist calls made

histVars == <<histories, histMeta, histLog, lastId, evicted, evictedMax, keptMin,
              lastNewest, pushes>>

\* The auth attempts of one adapter call
VARIABLES
    authAdapter, \* the adapter called: "ai" (ai.ts chatOpenAI), "cg" (cg.ts chatOpenAI)
    attempts,    \* the number of entries of the list attempts
    authIdx,     \* the entry the loop over attempts is at
    authPc,      \* where the call is: "idle", "try", "returned", "thrown"
    authLastErr, \* let lastErr, NoAuthErr while undefined
    authLog,     \* history: the attempts made, in order, with their outcome
    authResult,  \* the entry whose response the call returned, 0 for none
    authThrown   \* the error the adapter call was rejected with

authVars == <<authAdapter, attempts, authIdx, authPc, authLastErr, authLog, authResult,
              authThrown>>

\* A request of the Gemini adapter
VARIABLES
    gemConfigs,  \* the list configs that mkConfigs returned
    gemPath,     \* the entry of paths the outer loop is at: 1 for /v1beta, 2 for /v1
    gemCfg,      \* the entry of configs the inner loop is at
    gemPc,       \* where the call is: "idle", "try", "returned", "thrown"
    gemLastErr,  \* let lastErr, NoGemErr while undefined
    gemLog,      \* history: the requests made, in order, with their outcome
    gemThrown    \* the error the call was rejected with

gemVars == <<gemConfigs, gemPath, gemCfg, gemPc, gemLastErr, gemLog, gemThrown>>

\* A call of buildAuthAttempts
VARIABLES
    baPlugin,    \* the plugin whose buildAuthAttempts is called: "ai" or "cg"
    baProvider,  \* the provider it is called with
    baDone,      \* the call has returned
    baAttempts   \* the list it returned

buildVars == <<baPlugin, baProvider, baDone, baAttempts>>

\* A call of splitMessage and a call of buildChunks
VARIABLES
    txText,      \* the text, as its lines
    txReserve,   \* splitMessage: reserve
    txCollapse,  \* buildChunks: collapse
    txPostfix,   \* buildChunks: the length of postfix
    txSplit,     \* splitMessage has returned
    txParts,     \* what splitMessage(txText, txReserve) returned
    txBuilt,     \* buildChunks has returned
    txChunks     \* what buildChunks(txText, txCollapse, postfix) returned, as lengths

textVars == <<txText, txReserve, txCollapse, txPostfix, txSplit, txParts, txBuilt, txChunks>>

\* Concurrent calls of callChat
VARIABLES
    contextEnabled, \* Store.data.contextEnabled
    calls,          \* the calls of callChat: where each is, its session and its text
    completions     \* history: the number of adapter calls that have completed

callVars == <<contextEnabled, calls, completions>>

\* Concurrent calls of Store.init
VARIABLES
    pendingLoads,   \* calls of Store.init that await JSONFilePreset beside the first
    reloads,        \* history: the loads completed after the first one
    discarded       \* history: a load replaced data that had been changed since a load

loadVars == <<pendingLoads, reloads, discarded>>

moreVars == <<gemVars, buildVars, textVars, callVars, loadVars>>

(***************************************************************************)
(* Part 1: the retrying HTTP client                                        *)
(***************************************************************************)
\* Largest retry budget explored; the callers of the source all use the default.
MaxTries == 3
\* ai.ts:47, the default of the parameter tries.
DefaultTries == 2

\* err.response.status; 0 stands for an error that carries no response.
Statuses == {0, 429, 500, 502, 503, 504, 400, 401, 404}
\* err.code; "" stands for an error without a code. ECONNABORTED is the code
\* axios gives a request that ran into its timeout.
Codes == {"", "ECONNRESET", "ETIMEDOUT", "ENOTFOUND", "ECONNABORTED"}
\* What axios(baseConfig) can reject with: the three fields shouldRetry reads.
Errors == [status : Statuses, code : Codes, isAxiosError : BOOLEAN]

\* The value of lastErr before the first failure (undefined in the source).
NoErr == [status |-> -1, code |-> "", isAxiosError |-> FALSE]

HasResponse(err) == err.status # 0

\* A mutant of shouldRetry: 504 is missing from the list of statuses.
shouldRetryNo504(err) ==
    \/ err.status \in {429, 500, 502, 503}
    \/ err.code \in {"ECONNRESET", "ETIMEDOUT", "ENOTFOUND"}
    \/ (err.isAxiosError /\ ~HasResponse(err))

\* ai.ts:40-46
shouldRetry(err) ==
    \/ err.status \in {429, 500, 502, 503, 504}
    \/ err.code \in {"ECONNRESET", "ETIMEDOUT", "ENOTFOUND"}
    \/ (err.isAxiosError /\ ~HasResponse(err))

\* A mutant of the increment: the attempt counter is never advanced.
NextAttemptStuck(a) == a

\* ai.ts:59, attempt++
NextAttempt(a) == a + 1

\* ai.ts:51, the loop condition
LoopCond(a, t) == a <= t

\* ai.ts:56, the first disjunct of the throw condition
BudgetSpent(a, t) == a >= t

\* ai.ts:53, axios(baseConfig) resolves and axiosWithRetry returns its response.
AttemptOk ==
    /\ retryPc = "request"
    /\ retryPc' = "returned"
    /\ requests' = requests + 1
    /\ allRetryable' = FALSE
    /\ UNCHANGED <<tries, attempt, lastErr, thrown, sleeps>>
    /\ UNCHANGED <<storeVars, compatVars, histVars, authVars, moreVars>>

\* ai.ts:54-58, axios(baseConfig) rejects with err: throw, or begin the backoff.
AttemptFail(err) ==
    /\ retryPc = "request"
    /\ requests' = requests + 1
    /\ lastErr' = err
    /\ allRetryable' = (allRetryable /\ shouldRetry(err))
    /\ IF BudgetSpent(attempt, tries) \/ ~shouldRetry(err)
          THEN /\ retryPc' = "thrown"
               /\ thrown' = err
               /\ sleeps' = sleeps
          ELSE /\ retryPc' = "sleep"
               /\ thrown' = thrown
               /\ sleeps' = sleeps + 1
    /\ UNCHANGED <<tries, attempt>>
    /\ UNCHANGED <<storeVars, compatVars, histVars, authVars, moreVars>>

\* ai.ts:58-62, the backoff wait ends: attempt++ and the loop condition.
BackoffDone ==
    /\ retryPc = "sleep"
    /\ attempt' = NextAttempt(attempt)
    /\ IF LoopCond(attempt', tries)
          THEN retryPc' = "request" /\ thrown' = thrown
          ELSE retryPc' = "thrown" /\ thrown' = lastErr
    /\ UNCHANGED <<tries, lastErr, requests, sleeps, allRetryable>>
    /\ UNCHANGED <<storeVars, compatVars, histVars, authVars, moreVars>>

NextRetry ==
    \/ AttemptOk
    \/ \E err \in Errors : AttemptFail(err)
    \/ BackoffDone

(***************************************************************************)
(* Part 2: debounced persistence, Store.writeSoon and atomicWriteJSON      *)
(***************************************************************************)
\* ai.ts:259
writeSoonDelay == 300
\* The clock advances in steps of writeSoonDelay \div DelayTicks milliseconds.
DelayTicks == 3
\* Timers that can exist at once, armed or running their callback.
MaxTimers == 3
\* Mutations of Store.data explored.
MaxMutations == 3
\* A document is written to the file in this many write steps.
DocChunks == 2

TickMs == writeSoonDelay \div DelayTicks
TimerIds == 1..MaxTimers
InodeIds == 1..(MaxTimers + 2)

\* ai.ts:70, JSON.stringify(data, null, 2) of the state after ver mutations,
\* as the sequence of the pieces writeFile puts into the file.
Serialize(ver) == [i \in 1..DocChunks |-> [ver |-> ver, idx |-> i]]
\* What a file holds where nothing was written (a hole left by a truncation).
Hole == [ver |-> -1, idx |-> 0]

FreeTimer == [st |-> "free", rem |-> 0, snap |-> 0, pos |-> 0, ino |-> 0, burst |-> FALSE]

\* The content of file f after a write of piece c at offset pos (0-based).
PutAt(f, pos, c) ==
    [i \in 1..Max(Len(f), pos + 1) |->
        IF i = pos + 1 THEN c ELSE IF i <= Len(f) THEN f[i] ELSE Hole]

\* Inodes no path and no open file refers to are gone.
Collect(ino, tm, tmp, target) ==
    [i \in InodeIds |->
        IF i = tmp \/ i = target \/ (\E t \in TimerIds : tm[t].st \in {"write", "rename"} /\ tm[t].ino = i)
           THEN ino[i] ELSE <<>>]

InodeFree(i) ==
    /\ i # tmpIno /\ i # targetIno
    /\ \A t \in TimerIds : ~(timers[t].st \in {"write", "rename"} /\ timers[t].ino = i)

\* ai.ts:262, if (this._writeTimer) clearTimeout(this._writeTimer): a timer that
\* has not fired is cancelled, one that fired (its callback runs) is not affected.
ClearTimeout(tm, h) ==
    IF h # 0 /\ tm[h].st = "armed" THEN [tm EXCEPT ![h] = FreeTimer] ELSE tm

\* The timer slot setTimeout takes: the first that is free.
FreeSlot(tm) ==
    CHOOSE t \in TimerIds :
        tm[t].st = "free" /\ \A u \in TimerIds : tm[u].st = "free" => t <= u

\* ai.ts:262-265, the timers after writeSoon: the timer _writeTimer refers to is
\* cleared and a new one is armed with the delay.
WriteSoonTimers(tm, h) ==
    LET cleared == ClearTimeout(tm, h)
    IN [cleared EXCEPT ![FreeSlot(cleared)] =
            [FreeTimer EXCEPT !.st = "armed", !.rem = writeSoonDelay, !.burst = TRUE]]

\* ai.ts:263, the new value of _writeTimer.
WriteSoonHandle(tm, h) == FreeSlot(ClearTimeout(tm, h))

CanWriteSoon(tm, h) == \E t \in TimerIds : ClearTimeout(tm, h)[t].st = "free"

\* ai.ts:261-267 Store.writeSoon, called by a handler right after it changed
\* Store.data (the mutation is part of the step). A call less than the delay
\* after the previous one continues the burst of calls, another begins a burst.
Mutate ==
    /\ alive
    /\ mem < MaxMutations
    /\ CanWriteSoon(timers, writeTimer)
    /\ LET inBurst == mem > 0 /\ sinceMut < writeSoonDelay
           s       == WriteSoonHandle(timers, writeTimer)
           armed   == WriteSoonTimers(timers, writeTimer)
       IN /\ timers' = IF inBurst THEN armed
                       ELSE [t \in TimerIds |->
                               IF t = s THEN armed[t] ELSE [armed[t] EXCEPT !.burst = FALSE]]
          /\ writeTimer' = s
          /\ burstWrites' = IF inBurst THEN burstWrites ELSE 0
          /\ writeBeforeLast' = (writeBeforeLast \/ (inBurst /\ burstWrites > 0))
    /\ mem' = mem + 1
    /\ sinceMut' = 0
    /\ UNCHANGED <<alive, inodes, tmpIno, targetIno>>
    /\ UNCHANGED <<retryVars, compatVars, histVars, authVars, moreVars>>

\* Time passes; a timer that is due fires before more time passes.
Tick ==
    /\ alive
    /\ \A t \in TimerIds : timers[t].st = "armed" => timers[t].rem > 0
    /\ timers' = [t \in TimerIds |->
                    IF timers[t].st = "armed"
                       THEN [timers[t] EXCEPT !.rem = Max(0, timers[t].rem - TickMs)]
                       ELSE timers[t]]
    /\ sinceMut' = Min(writeSoonDelay, sinceMut + TickMs)
    /\ UNCHANGED <<alive, mem, writeTimer, inodes, tmpIno, targetIno, burstWrites,
                   writeBeforeLast>>
    /\ UNCHANGED <<retryVars, compatVars, histVars, authVars, moreVars>>

\* ai.ts:263-264 and 66-71: the timer fires; atomicWriteJSON serializes the data
\* as they are now and calls writeFile, which has not opened the file yet.
TimerFire(t) ==
    /\ alive
    /\ timers[t].st = "armed" /\ timers[t].rem = 0
    /\ timers' = [timers EXCEPT ![t].st = "open", ![t].snap = mem]
    /\ burstWrites' = IF timers[t].burst THEN burstWrites + 1 ELSE burstWrites
    /\ UNCHANGED <<alive, mem, writeTimer, sinceMut, inodes, tmpIno, targetIno,
                   writeBeforeLast>>
    /\ UNCHANGED <<retryVars, compatVars, histVars, authVars, moreVars>>

\* ai.ts:71 writeFile(tmp, json) opens config.json.tmp for writing: the file is
\* created, or truncated when it exists.
WriteOpen(t) ==
    /\ alive
    /\ timers[t].st = "open"
    /\ LET n == IF tmpIno # 0 THEN tmpIno
                ELSE CHOOSE i \in InodeIds :
                        InodeFree(i) /\ \A j \in InodeIds : InodeFree(j) => i <= j
           tm == [timers EXCEPT ![t].st = "write", ![t].ino = n, ![t].pos = 0]
       IN /\ timers' = tm
          /\ tmpIno' = n
          /\ inodes' = Collect([inodes EXCEPT ![n] = <<>>], tm, n, targetIno)
    /\ UNCHANGED <<alive, mem, writeTimer, sinceMut, targetIno, burstWrites,
                   writeBeforeLast>>
    /\ UNCHANGED <<retryVars, compatVars, histVars, authVars, moreVars>>

\* ai.ts:71 writeFile puts the next piece of the document at its own offset of
\* the file it opened, and closes the file after the last piece.
WriteChunk(t) ==
    /\ alive
    /\ timers[t].st = "write"
    /\ LET p  == timers[t].pos
           tm == [timers EXCEPT ![t].pos = p + 1,
                                ![t].st = IF p + 1 = DocChunks THEN "rename" ELSE "write"]
       IN /\ timers' = tm
          /\ inodes' = [inodes EXCEPT ![timers[t].ino] =
                            PutAt(@, p, Serialize(timers[t].snap)[p + 1])]
    /\ UNCHANGED <<alive, mem, writeTimer, sinceMut, tmpIno, targetIno, burstWrites,
                   writeBeforeLast>>
    /\ UNCHANGED <<retryVars, compatVars, histVars, authVars, moreVars>>

\* ai.ts:72 rename(tmp, file): the inode config.json names afterwards.
RenameTarget(tmp, target) == tmp

\* ai.ts:72 and 264: rename(tmp, file), which fails when config.json.tmp does not
\* exist (another write renamed it away); then finally { this._writeTimer = null }.
WriteRename(t) ==
    /\ alive
    /\ timers[t].st = "rename"
    /\ LET tm == [timers EXCEPT ![t] = FreeTimer]
           tg == IF tmpIno # 0 THEN RenameTarget(tmpIno, targetIno) ELSE targetIno
       IN /\ timers' = tm
          /\ targetIno' = tg
          /\ tmpIno' = 0
          /\ inodes' = Collect(inodes, tm, 0, tg)
    /\ writeTimer' = 0
    /\ UNCHANGED <<alive, mem, sinceMut, burstWrites, writeBeforeLast>>
    /\ UNCHANGED <<retryVars, compatVars, histVars, authVars, moreVars>>

\* The process dies: its timers and its unfinished writes are gone, the files
\* stay as they are.
Crash ==
    /\ alive
    /\ alive' = FALSE
    /\ writeTimer' = 0
    /\ timers' = [t \in TimerIds |-> FreeTimer]
    /\ inodes' = Collect(inodes, [t \in TimerIds |-> FreeTimer], tmpIno, targetIno)
    /\ UNCHANGED <<mem, sinceMut, tmpIno, targetIno, burstWrites, writeBeforeLast>>
    /\ UNCHANGED <<retryVars, compatVars, histVars, authVars, moreVars>>

NextStore ==
    \/ Mutate
    \/ Tick
    \/ \E t \in TimerIds : TimerFire(t)
    \/ \E t \in TimerIds : WriteOpen(t)
    \/ \E t \in TimerIds : WriteChunk(t)
    \/ \E t \in TimerIds : WriteRename(t)
    \/ Crash

\* What config.json holds.
TargetContent == IF targetIno = 0 THEN <<>> ELSE inodes[targetIno]
Quiescent == alive /\ \A t \in TimerIds : timers[t].st = "free"

(***************************************************************************)
(* Part 3: the compatibility resolver, the catalog, Store.init, the        *)
(* configuration commands                                                  *)
(***************************************************************************)
\* Probe tasks of resolveCompat that can be in flight at once.
MaxProbes == 2
\* refreshModelCatalog works that can be in flight at once.
MaxRefresh == 2
\* Pending setTimeout(..., 0) callbacks of resolveCompat.
MaxRefreshTimers == 1
\* The commands (config and model set) of one run.
MaxCommands == 3

\* ai.ts:11
Compats == {"openai", "gemini", "claude"}
\* ai.ts:1262, the order listModelsByAnyCompat tries the families in
CompatOrder == <<"openai", "gemini", "claude">>
ProviderNames == {"acme"}
\* The model names the commands are given.
ModelNames == {"gpt-4o-mini", "Gemini-Pro"}
\* ai.ts:12
Kinds == {"chat", "search", "image", "tts"}
\* The kinds the commands of Spec select a model for.
UsedKinds == {"chat"}

\* String.prototype.toLowerCase on the model names.
toLowerCase(m) == IF m = "Gemini-Pro" THEN "gemini-pro" ELSE m
LowerNames == {toLowerCase(m) : m \in ModelNames}

\* ai.ts:339-345: the regular expressions, on the model names: none of the
\* names has the token claude or anthropic, gemini-pro has the token gemini.
detectCompat(model) ==
    LET m == toLowerCase(model)
    IN IF m \in {} THEN "claude"
       ELSE IF m \in {"gemini-pro"} THEN "gemini"
       ELSE "openai"

EmptyMap == [k \in LowerNames |-> None]
NoCompat == [p \in ProviderNames |-> EmptyMap]
NoSel == [provider |-> None, model |-> None]
NoModels == [k \in Kinds |-> NoSel]
Range(q) == {q[i] : i \in 1..Len(q)}
Without(q, x) == SelectSeq(q, LAMBDA y : y # x)

\* What the listing endpoints of a provider answer: for each family c the
\* lower-cased names listModels(p, c) returns, {} when it throws or lists none
\* (ai.ts:1192-1258; the vendor decides). The providers of the model answer
\* the openai and the gemini endpoints with every name or with none, and never
\* the claude endpoint.
ListedCompats == {"openai", "gemini"}
Responses ==
    {r \in [Compats -> {{}, LowerNames}] : \A c \in Compats \ ListedCompats : r[c] = {}}

\* ai.ts:1261-1287 listModelsByAnyCompat: primary is the first family with a
\* list, modelMap gives a name the first family that lists it, corrected to
\* gemini or claude when the name says so.
listModelsByAnyCompat(resp) ==
    LET first(S) == IF S = {} THEN None
                    ELSE CompatOrder[CHOOSE i \in 1..3 :
                            /\ CompatOrder[i] \in S
                            /\ \A j \in 1..3 : CompatOrder[j] \in S => i <= j]
        found(k) == first({c \in Compats : k \in resp[c]})
    IN [compat   |-> first({c \in Compats : resp[c] # {}}),
        modelMap |-> [k \in LowerNames |->
                        IF found(k) # None /\ detectCompat(k) \in {"gemini", "claude"}
                           THEN detectCompat(k) ELSE found(k)]]

ListingResults == {listModelsByAnyCompat(r) : r \in Responses}

\* The documents config.json can hold at start: none (the defaults of
\* JSONFilePreset, ai.ts:205-211), one of data version 2 and one of version 3.
PersistedDocs ==
    { [dataVersion |-> 0, providers |-> <<>>, models |-> NoModels,
       modelCompat |-> NoCompat, catalog |-> EmptyMap],
      [dataVersion |-> 2, providers |-> <<"acme">>,
       models |-> [NoModels EXCEPT !["chat"] = [provider |-> "acme", model |-> "Gemini-Pro"]],
       modelCompat |-> [NoCompat EXCEPT !["acme"]["gemini-pro"] = "openai"],
       catalog |-> EmptyMap],
      [dataVersion |-> 3, providers |-> <<"acme">>,
       models |-> [NoModels EXCEPT !["chat"] = [provider |-> "acme", model |-> "gpt-4o-mini"]],
       modelCompat |-> NoCompat,
       catalog |-> [EmptyMap EXCEPT !["gpt-4o-mini"] = "openai"]] }

ProbeIds == 1..MaxProbes
RefreshIds == 1..MaxRefresh
\* The keys of the map compatResolving: name + "::" + ml, and name alone.
PairKeys == {<<p, k>> : p \in ProviderNames, k \in LowerNames}
NameKeys == {<<p>> : p \in ProviderNames}
FreeProbe == [st |-> "free", name |-> None, ml |-> None,
              stale |-> FALSE, late |-> FALSE, joined |-> FALSE]
FreeRefresh == [st |-> "free", todo |-> 0, merged |-> EmptyMap, forInit |-> FALSE]

\* The history of a pair with no probe completed: ret is what the probe
\* returned, entry the entry of modelCompat it found, failed whether no
\* listing succeeded, again whether a call began or joined a probe since; and
\* for a probe that returned the heuristic, recorded is the family the last
\* refresh since put into the catalog and after what a call returned since
\* that refresh. A probe that found an entry and a listing leaves no history.
NoLog == [ret |-> None, entry |-> None, failed |-> FALSE, recorded |-> None,
          after |-> None, again |-> FALSE]
NoLogs == [k \in PairKeys |-> NoLog]
\* The probe of the history found no entry and no listing: it returned byName.
ByHeuristic(log) == log.failed /\ log.entry = None

\* Store.writeSoon as the last call of a handler of this part.
WriteSoon ==
    /\ timers' = WriteSoonTimers(timers, writeTimer)
    /\ writeTimer' = WriteSoonHandle(timers, writeTimer)
    /\ sinceMut' = 0
    /\ UNCHANGED <<alive, mem, inodes, tmpIno, targetIno, burstWrites, writeBeforeLast>>

\* ai.ts:233-252, the loop of the version 3 migration over modelCompat: an
\* entry that differs from the catalog takes the catalog's family, an openai
\* entry the catalog does not know takes the family its name says.
Migrate(mc, cat) ==
    [p \in ProviderNames |-> [k \in LowerNames |->
        LET cur == mc[p][k]
        IN IF cur = None THEN None
           ELSE IF cat[k] # None /\ cat[k] # cur THEN cat[k]
           ELSE IF cat[k] = None /\ cur = "openai"
                   /\ detectCompat(k) \in {"gemini", "claude"} THEN detectCompat(k)
           ELSE cur]]

\* ai.ts:354-381 refreshModelCatalog past the check of line 355, for the
\* providers provs: the work takes a snapshot of the provider entries and lists
\* them one after the other; with no provider it is finished at once.
CanStartRefresh(provs) ==
    Len(provs) = 0 \/ \E w \in RefreshIds : refreshes[w].st = "free"

StartedRefresh(provs, cat, forInit) ==
    IF Len(provs) = 0
       THEN [refreshing |-> FALSE, lastPromise |-> 0, refreshes |-> refreshes,
             catalog |-> EmptyMap]
       ELSE LET w == CHOOSE i \in RefreshIds :
                        /\ refreshes[i].st = "free"
                        /\ \A j \in RefreshIds : refreshes[j].st = "free" => i <= j
            IN [refreshing |-> TRUE, lastPromise |-> w,
                refreshes |-> [refreshes EXCEPT ![w] =
                    [st |-> "run", todo |-> Len(provs), merged |-> EmptyMap,
                     forInit |-> forInit]],
                catalog |-> cat]

\* ai.ts:201-205 Store.init: db is null, the document is being read.
InitCall ==
    /\ initPc = "unloaded"
    /\ initPc' = "loading"
    /\ UNCHANGED <<persisted, providers, models, modelCompat, catalog, compatResolving,
                   probes, refreshTimers, refreshing, lastPromise, refreshes, manual,
                   lastRet, unstable, overrideIgnored, joinedStale, tainted>>
    /\ UNCHANGED <<retryVars, storeVars, histVars, authVars, moreVars>>
    /\ UNCHANGED <<commands, probeLog>>

\* ai.ts:205-229 (and 230-256 when there is no provider to list): the document
\* is read, db and data are set, missing fields get their defaults; a document
\* older than version 3 begins the migration with refreshModelCatalog(true).
LoadDocument ==
    /\ providers' = persisted.providers
    /\ models' = persisted.models
    /\ IF persisted.dataVersion >= 3
          THEN /\ initPc' = "ready"
               /\ modelCompat' = persisted.modelCompat
               /\ catalog' = persisted.catalog
               /\ UNCHANGED <<refreshing, lastPromise, refreshes>>
               /\ WriteSoon
          ELSE /\ CanStartRefresh(persisted.providers)
               /\ LET r == StartedRefresh(persisted.providers, persisted.catalog, TRUE)
                  IN /\ refreshing' = r.refreshing
                     /\ lastPromise' = r.lastPromise
                     /\ refreshes' = r.refreshes
                     /\ catalog' = r.catalog
                     /\ IF Len(persisted.providers) = 0
                           THEN /\ initPc' = "ready"
                                /\ modelCompat' = Migrate(persisted.modelCompat, r.catalog)
                                /\ WriteSoon
                           ELSE /\ initPc' = "migrating"
                                /\ modelCompat' = persisted.modelCompat
                                /\ UNCHANGED storeVars
    /\ UNCHANGED <<persisted, compatResolving, probes, refreshTimers, manual, lastRet,
                   unstable, overrideIgnored, joinedStale, tainted>>
    /\ UNCHANGED <<retryVars, histVars, authVars, commands, probeLog>>
    /\ UNCHANGED <<gemVars, buildVars, textVars, callVars>>

\* ai.ts:205-229: the JSONFilePreset of the first Store.init call resolves.
InitLoaded ==
    /\ initPc = "loading"
    /\ LoadDocument
    /\ UNCHANGED loadVars

\* Store.db is set: the handlers get past await Store.init() (ai.ts:202, 1412).
Loaded == initPc \in {"migrating", "ready"}

\* Store.init calls that can await their JSONFilePreset beside the first one.
MaxLoads == 2

\* ai.ts:202-205 and 1412: another handler calls Store.init while the first
\* call awaits JSONFilePreset; Store.db is still null, so this call does not
\* return at once and reads the document as well.
InitCallAgain ==
    /\ initPc = "loading"
    /\ pendingLoads < MaxLoads
    /\ pendingLoads' = pendingLoads + 1
    /\ UNCHANGED <<reloads, discarded>>
    /\ UNCHANGED <<retryVars, storeVars, compatVars, histVars, authVars>>
    /\ UNCHANGED <<gemVars, buildVars, textVars, callVars>>

\* ai.ts:205-229: the JSONFilePreset of a later Store.init call resolves, here
\* after the first call has returned, with the document it read when the call
\* began: db and data are set again, and a document older than version 3 is
\* migrated again. discarded: the providers or the selectors the handlers had
\* set in Store.data are not those of the data that replace it.
InitLoadedAgain ==
    /\ pendingLoads > 0
    /\ initPc = "ready"
    /\ pendingLoads' = pendingLoads - 1
    /\ reloads' = reloads + 1
    /\ LoadDocument
    /\ discarded' = (discarded \/ <<providers, models>> # <<providers', models'>>)

\* A mutant of the lookup: the registered probe is never found.
PendingNever(cr, name, ml) == 0

\* ai.ts:393, compatResolving.get(name + "::" + ml) || compatResolving.get(name)
Pending(cr, name, ml) ==
    IF cr[<<name, ml>>] # 0 THEN cr[<<name, ml>>] ELSE cr[<<name>>]

\* ai.ts:386-390, what resolveCompat returns at once: the entry mc of modelCompat
\* when there is one, else the entry cat of the catalog, else nothing.
FastAnswer(mc, cat) == IF mc # None THEN mc ELSE cat

\* ai.ts:383-394 and 432: resolveCompat for the model selected for a kind
\* (callChat, ai.ts:1290-1292, and preflight, ai.ts:1435-1439): it returns the
\* override or the catalog entry, or schedules a refresh and awaits the probe
\* that is registered, or begins and registers a probe.
ResolveCompat(kind) ==
    /\ Loaded
    /\ models[kind] # NoSel
    /\ models[kind].provider \in Range(providers)
    /\ LET name == models[kind].provider
           ml   == toLowerCase(models[kind].model)
           key  == <<name, ml>>
           fast == FastAnswer(modelCompat[name][ml], catalog[ml])
           pending == Pending(compatResolving, name, ml)
       IN IF fast # None
             THEN /\ lastRet' = [lastRet EXCEPT ![key] = fast]
                  /\ unstable' = (unstable \/ (lastRet[key] # None /\ lastRet[key] # fast))
                  /\ overrideIgnored' =
                        (overrideIgnored \/ (manual[name][ml] # None /\ manual[name][ml] # fast))
                  /\ probeLog' = [probeLog EXCEPT ![key].after =
                        IF probeLog[key].recorded # None /\ catalog[ml] = probeLog[key].recorded
                           THEN fast ELSE @]
                  /\ UNCHANGED <<compatResolving, probes, refreshTimers, joinedStale>>
             ELSE /\ refreshTimers < MaxRefreshTimers
                  /\ refreshTimers' = refreshTimers + 1
                  /\ IF pending # 0
                        THEN /\ probes' = [probes EXCEPT
                                    ![pending].joined = TRUE,
                                    ![pending].late = (@ \/ lastRet[key] # None)]
                             /\ joinedStale' = (joinedStale \/ probes[pending].stale)
                             /\ UNCHANGED compatResolving
                        ELSE /\ \E i \in ProbeIds : probes[i].st = "free"
                             /\ LET s == CHOOSE i \in ProbeIds :
                                            /\ probes[i].st = "free"
                                            /\ \A j \in ProbeIds : probes[j].st = "free" => i <= j
                                IN /\ probes' = [probes EXCEPT ![s] =
                                        [st |-> "run", name |-> name, ml |-> ml, stale |-> FALSE,
                                         late |-> (lastRet[key] # None), joined |-> FALSE]]
                                   /\ compatResolving' = [compatResolving EXCEPT ![key] = s]
                             /\ UNCHANGED joinedStale
                  /\ probeLog' = [probeLog EXCEPT ![key].again = (@ \/ probeLog[key].ret # None)]
                  /\ UNCHANGED <<lastRet, unstable, overrideIgnored>>
    /\ UNCHANGED <<initPc, persisted, providers, models, modelCompat, catalog, refreshing,
                   lastPromise, refreshes, manual, tainted>>
    /\ UNCHANGED <<retryVars, storeVars, histVars, authVars, moreVars>>
    /\ UNCHANGED commands

\* ai.ts:403-407, the listing merged into modelCompat[name]: only the names
\* that have no entry get one.
MergeProbe(cur, map) ==
    [k \in LowerNames |-> IF cur[k] = None THEN map[k] ELSE cur[k]]

\* A mutant of the answer: openai where the code takes the heuristic.
ProbeAnswerOpenai(entry, primary, byName) ==
    IF entry # None THEN entry ELSE IF primary # None THEN primary ELSE "openai"

\* ai.ts:408-409, comp: the entry of modelCompat after the merge, else the
\* primary family of the listing, else the heuristic.
ProbeAnswer(entry, primary, byName) ==
    IF entry # None THEN entry ELSE IF primary # None THEN primary ELSE byName

\* ai.ts:427-430, the finally block of the probe task
Unregister(cr, name, ml) == [cr EXCEPT ![<<name, ml>>] = 0, ![<<name>>] = 0]

\* ai.ts:395-419 and 427-430: the listing of a probe task ends with res (the try
\* block; listModelsByAnyCompat catches every error itself, so the catch block
\* of lines 420-426 is never entered): the listing is merged into modelCompat
\* and into the catalog, the task returns comp to the calls that await it and
\* removes the registration of its pair.
ProbeDone(s, res) ==
    /\ probes[s].st = "run"
    /\ LET name == probes[s].name
           ml   == probes[s].ml
           key  == <<name, ml>>
           mc1  == MergeProbe(modelCompat[name], res.modelMap)
           comp == ProbeAnswer(mc1[ml], res.compat, detectCompat(ml))
           others == {i \in ProbeIds \ {s} :
                        probes[i].st = "run" /\ probes[i].name = name /\ probes[i].ml = ml}
       IN /\ modelCompat' = [modelCompat EXCEPT ![name] = [mc1 EXCEPT ![ml] = comp]]
          /\ catalog' = [k \in LowerNames |->
                            IF k = ml THEN comp
                            ELSE IF res.modelMap[k] # None THEN res.modelMap[k]
                            ELSE catalog[k]]
          /\ compatResolving' = Unregister(compatResolving, name, ml)
          /\ lastRet' = [lastRet EXCEPT ![key] = comp]
          /\ unstable' = (unstable \/
                            (probes[s].late /\ lastRet[key] # None /\ lastRet[key] # comp))
          /\ probeLog' = [probeLog EXCEPT ![key] =
                IF modelCompat[name][ml] = None \/ res.compat = None
                   THEN [NoLog EXCEPT !.ret = comp, !.entry = modelCompat[name][ml],
                                      !.failed = (res.compat = None)]
                   ELSE NoLog]
          /\ tainted' = IF others = {} THEN [tainted EXCEPT ![key] = FALSE] ELSE tainted
    /\ probes' = [probes EXCEPT ![s] = FreeProbe]
    /\ WriteSoon
    /\ UNCHANGED <<initPc, persisted, providers, models, refreshTimers, refreshing,
                   lastPromise, refreshes, manual, overrideIgnored, joinedStale>>
    /\ UNCHANGED <<retryVars, histVars, authVars, moreVars, commands>>

\* ai.ts:392 and 354-356: a callback of setTimeout(..., 0) runs
\* refreshModelCatalog(false): nothing when a refresh is marked as running,
\* else a refresh begins.
RefreshTimerFire ==
    /\ refreshTimers > 0
    /\ refreshTimers' = refreshTimers - 1
    /\ IF refreshing
          THEN /\ UNCHANGED <<refreshing, lastPromise, refreshes, catalog>>
               /\ UNCHANGED storeVars
          ELSE /\ CanStartRefresh(providers)
               /\ LET r == StartedRefresh(providers, catalog, FALSE)
                  IN /\ refreshing' = r.refreshing
                     /\ lastPromise' = r.lastPromise
                     /\ refreshes' = r.refreshes
                     /\ catalog' = r.catalog
               /\ IF Len(providers) = 0 THEN WriteSoon ELSE UNCHANGED storeVars
    /\ UNCHANGED <<initPc, persisted, providers, models, modelCompat, compatResolving,
                   probes, manual, lastRet, unstable, overrideIgnored, joinedStale, tainted>>
    /\ UNCHANGED <<retryVars, histVars, authVars, moreVars, commands, probeLog>>

\* ai.ts:361-377: the listing of the next provider of a refresh ends with res
\* and is put into merged; after the last provider merged becomes the catalog
\* and the flags of catalogInflight are reset. The refresh of Store.init is
\* followed by the migration loop (ai.ts:230-256).
RefreshStep(w, res) ==
    /\ refreshes[w].st = "run"
    /\ LET r == refreshes[w]
           merged == [k \in LowerNames |->
                        IF res.modelMap[k] # None THEN res.modelMap[k] ELSE r.merged[k]]
       IN IF r.todo > 1
             THEN /\ refreshes' = [refreshes EXCEPT ![w].todo = r.todo - 1,
                                                    ![w].merged = merged]
                  /\ UNCHANGED <<catalog, refreshing, lastPromise, modelCompat, initPc, probeLog>>
                  /\ UNCHANGED storeVars
             ELSE /\ refreshes' = [refreshes EXCEPT ![w] = FreeRefresh]
                  /\ catalog' = merged
                  /\ probeLog' = [k \in PairKeys |->
                        IF ByHeuristic(probeLog[k])
                           THEN [probeLog[k] EXCEPT !.recorded = merged[k[2]], !.after = None]
                           ELSE probeLog[k]]
                  /\ refreshing' = FALSE
                  /\ lastPromise' = 0
                  /\ IF r.forInit
                        THEN /\ modelCompat' = Migrate(modelCompat, merged)
                             /\ initPc' = "ready"
                        ELSE UNCHANGED <<modelCompat, initPc>>
                  /\ WriteSoon
    /\ UNCHANGED <<persisted, providers, models, compatResolving, probes, refreshTimers,
                   manual, lastRet, unstable, overrideIgnored, joinedStale, tainted>>
    /\ UNCHANGED <<retryVars, histVars, authVars, moreVars, commands>>

\* The history after a configuration command that names provider name: the
\* probes in flight for it are older than the command, and what calls returned
\* before the command no longer binds later calls.
StaleProbes(name) ==
    [i \in ProbeIds |->
        IF probes[i].st = "run"
           THEN [probes[i] EXCEPT !.stale = (@ \/ probes[i].name = name), !.late = FALSE]
           ELSE probes[i]]

\* ai.ts:1471, 1493, 1505: if (Store.data.modelCompat) delete Store.data.modelCompat[name]
DropOverrides(mc, name) == [mc EXCEPT ![name] = EmptyMap]

\* ai.ts:1472, 1494: compatResolving.delete(name)
DeleteName(cr, name) == [cr EXCEPT ![<<name>>] = 0]

\* The steps config add, update and remove share: the refresh they force
\* (ai.ts:1474, 1496, 1510) and the history.
AfterConfig(name, provs, cat) ==
    /\ CanStartRefresh(provs)
    /\ LET r == StartedRefresh(provs, cat, FALSE)
       IN /\ refreshing' = r.refreshing
          /\ lastPromise' = r.lastPromise
          /\ refreshes' = r.refreshes
          /\ catalog' = r.catalog
    /\ manual' = [manual EXCEPT ![name] = EmptyMap]
    /\ lastRet' = [k \in PairKeys |-> None]
    /\ probeLog' = NoLogs
    /\ probes' = StaleProbes(name)
    /\ WriteSoon
    /\ UNCHANGED <<initPc, persisted, refreshTimers, unstable, overrideIgnored,
                   joinedStale, tainted>>
    /\ commands < MaxCommands
    /\ commands' = commands + 1
    /\ UNCHANGED <<retryVars, histVars, authVars, moreVars>>

\* ai.ts:1461-1476, config add
ConfigAdd(name) ==
    /\ Loaded
    /\ providers' = IF name \in Range(providers) THEN providers ELSE Append(providers, name)
    /\ modelCompat' = DropOverrides(modelCompat, name)
    /\ compatResolving' = DeleteName(compatResolving, name)
    /\ UNCHANGED models
    /\ AfterConfig(name, providers', catalog)

\* ai.ts:1477-1498, config update of apikey or baseurl
ConfigUpdate(name) ==
    /\ Loaded
    /\ name \in Range(providers)
    /\ modelCompat' = DropOverrides(modelCompat, name)
    /\ compatResolving' = DeleteName(compatResolving, name)
    /\ UNCHANGED <<providers, models>>
    /\ AfterConfig(name, providers, catalog)

\* ai.ts:1499-1512, config remove of one provider
ConfigRemove(name) ==
    /\ Loaded
    /\ name \in Range(providers)
    /\ providers' = Without(providers, name)
    /\ modelCompat' = DropOverrides(modelCompat, name)
    /\ models' = [k \in Kinds |-> IF models[k].provider = name THEN NoSel ELSE models[k]]
    /\ UNCHANGED compatResolving
    /\ AfterConfig(name, providers', catalog)

\* ai.ts:1502 and 1509-1511, config remove all
ConfigRemoveAll ==
    /\ Loaded
    /\ providers' = <<>>
    /\ modelCompat' = NoCompat
    /\ compatResolving' = [k \in PairKeys \cup NameKeys |-> 0]
    /\ LET r == StartedRefresh(<<>>, EmptyMap, FALSE)
       IN /\ refreshing' = r.refreshing
          /\ lastPromise' = r.lastPromise
          /\ refreshes' = r.refreshes
          /\ catalog' = r.catalog
    /\ manual' = NoCompat
    /\ lastRet' = [k \in PairKeys |-> None]
    /\ probeLog' = NoLogs
    /\ probes' = [i \in ProbeIds |->
                    IF probes[i].st = "run"
                       THEN [probes[i] EXCEPT !.stale = TRUE, !.late = FALSE]
                       ELSE probes[i]]
    /\ tainted' = [k \in PairKeys |->
                    tainted[k] \/ \E i \in ProbeIds :
                        probes[i].st = "run" /\ <<probes[i].name, probes[i].ml>> = k]
    /\ WriteSoon
    /\ UNCHANGED <<initPc, persisted, models, refreshTimers, unstable, overrideIgnored,
                   joinedStale>>
    /\ commands < MaxCommands
    /\ commands' = commands + 1
    /\ UNCHANGED <<retryVars, histVars, authVars, moreVars>>

\* ai.ts:1763-1793, model set: the selection, and with a compat given the
\* manual override of the pair.
ModelSet(kind, name, model, compat) ==
    /\ Loaded
    /\ name \in Range(providers)
    /\ models' = [models EXCEPT ![kind] = [provider |-> name, model |-> model]]
    /\ IF compat # None
          THEN /\ modelCompat' = [modelCompat EXCEPT ![name][toLowerCase(model)] = compat]
               /\ manual' = [manual EXCEPT ![name][toLowerCase(model)] = compat]
               /\ lastRet' = [k \in PairKeys |-> None]
               /\ probes' = [i \in ProbeIds |-> [probes[i] EXCEPT !.late = FALSE]]
               /\ probeLog' = [probeLog EXCEPT ![<<name, toLowerCase(model)>>] = NoLog]
          ELSE UNCHANGED <<modelCompat, manual, lastRet, probes, probeLog>>
    /\ WriteSoon
    /\ UNCHANGED <<initPc, persisted, providers, catalog, compatResolving, refreshTimers,
                   refreshing, lastPromise, refreshes, unstable, overrideIgnored,
                   joinedStale, tainted>>
    /\ commands < MaxCommands
    /\ commands' = commands + 1
    /\ UNCHANGED <<retryVars, histVars, authVars, moreVars>>

Next ==
    \/ InitCall
    \/ InitLoaded
    \/ \E kind \in UsedKinds : ResolveCompat(kind)
    \/ \E s \in ProbeIds, res \in ListingResults : ProbeDone(s, res)
    \/ RefreshTimerFire
    \/ \E w \in RefreshIds, res \in ListingResults : RefreshStep(w, res)
    \/ \E name \in ProviderNames : ConfigAdd(name)
    \/ \E name \in ProviderNames : ConfigUpdate(name)
    \/ \E name \in ProviderNames : ConfigRemove(name)
    \/ ConfigRemoveAll
    \/ \E kind \in UsedKinds, name \in ProviderNames, model \in ModelNames,
          compat \in ListedCompats \cup {None} : ModelSet(kind, name, model, compat)

\* The calls of Store.init, the commands that change the providers, and the
\* steps of the refresh the migration awaits.
NextInit ==
    \/ InitCall
    \/ InitCallAgain
    \/ InitLoaded
    \/ InitLoadedAgain
    \/ \E w \in RefreshIds, res \in ListingResults : RefreshStep(w, res)
    \/ \E name \in ProviderNames : ConfigAdd(name)
    \/ \E name \in ProviderNames : ConfigRemove(name)

(***************************************************************************)
(* Part 4: the conversation histories, pushHist and pruneGlobalHistories   *)
(***************************************************************************)
\* ai.ts:578
MAX_ITEMS == 50
\* ai.ts:580
MAX_BYTES == 64 * 1024
\* ai.ts:549
HISTORY_GLOBAL_MAX_SESSIONS == 200
\* ai.ts:550
HISTORY_GLOBAL_MAX_BYTES == 2 * 1024 * 1024

\* pushHist calls explored in one run.
MaxPushes == 2
\* The bytes of the one turn each of the sessions that fill the store holds.
FillBytes == 10400

\* chatIdStr (ai.ts:468) gives the decimal digits of a peer id: the sessions
\* are numbered, and Object.keys lists such keys in ascending order.
SessionIds == 1..(HISTORY_GLOBAL_MAX_SESSIONS + 1)
\* The sessions the calls of a run write to; the others fill the store.
ActiveIds == {1, 2}
FillIds == SessionIds \ ActiveIds
FillCount == Cardinality(FillIds)

\* ai.ts:1311-1312, the roles callChat appends with
Roles == {"user", "assistant"}
\* Buffer.byteLength of a role
RoleBytes(role) == IF role = "user" THEN 4 ELSE 9
\* The turns appended: role and Buffer.byteLength of the content; a turn of 1 KiB,
\* one that nearly fills a session, one above MAX_BYTES.
TurnInputs ==
    { [role |-> "user", len |-> 1024], [role |-> "assistant", len |-> 1024],
      [role |-> "assistant", len |-> 65000], [role |-> "user", len |-> 70000] }
\* What new Date() reads, in ms: the wall clock can read the same millisecond
\* twice and can have been set back, here to the time of the oldest session.
ClockReadings == {1, FillCount + 1, FillCount + 2}

\* ai.ts:581 (and 555) Buffer.byteLength(`${x.role}:${x.content}`)
sizeOfItem(x) == RoleBytes(x.role) + 1 + x.len

\* The sum of the sizes of arr[lo..hi], by halves.
RECURSIVE SumItems(_, _, _)
SumItems(arr, lo, hi) ==
    IF lo > hi THEN 0
    ELSE IF lo = hi THEN sizeOfItem(arr[lo])
    ELSE SumItems(arr, lo, (lo + hi) \div 2) + SumItems(arr, (lo + hi) \div 2 + 1, hi)
\* ai.ts:556 (and 582-583) the bytes of the turns of a session
sizeOfHist(arr) == SumItems(arr, 1, Len(arr))

\* An object with no key, obj[k] = v and delete obj[k]
NoKeys == [i \in {} |-> 0]
SetKey(obj, k, v) == [i \in DOMAIN obj \cup {k} |-> IF i = k THEN v ELSE obj[i]]
DeleteKey(obj, k) == [i \in DOMAIN obj \ {k} |-> obj[i]]
\* ai.ts:575 (and 469, 558, 568) Store.data.histories[id] || []
HistOf(hs, id) == IF id \in DOMAIN hs THEN hs[id] ELSE <<>>

\* ai.ts:552 Object.keys(Store.data.histories)
HistIds(hs) == DOMAIN hs

\* The sum of the sizes of the sessions lo..hi, by halves.
RECURSIVE SumHists(_, _, _)
SumHists(hs, lo, hi) ==
    IF lo > hi THEN 0
    ELSE IF lo = hi THEN sizeOfHist(HistOf(hs, lo))
    ELSE SumHists(hs, lo, (lo + hi) \div 2) + SumHists(hs, (lo + hi) \div 2 + 1, hi)
\* ai.ts:557-558 totalBytes
TotalBytes(hs) == SumHists(hs, 1, HISTORY_GLOBAL_MAX_SESSIONS + 1)

\* A mutant of the trimming: no turn is removed.
TrimItemsNever(h) == h

\* ai.ts:579 while (h.length > MAX_ITEMS) h.shift()
RECURSIVE TrimItems(_)
TrimItems(h) == IF Len(h) > MAX_ITEMS THEN TrimItems(Tail(h)) ELSE h

\* ai.ts:584 while (total > MAX_BYTES && h.length > 1) { h.shift(); total -= ... }
RECURSIVE TrimBytes(_, _)
TrimBytes(h, total) ==
    IF total > MAX_BYTES /\ Len(h) > 1
       THEN TrimBytes(Tail(h), total - sizeOfItem(Head(h)))
       ELSE h

\* A mutant of the condition: the bytes are not looked at.
OverLimitsCountOnly(n, total) == n > HISTORY_GLOBAL_MAX_SESSIONS

\* ai.ts:566 (and, negated, 559): the store is above one of its limits
OverLimits(n, total) ==
    n > HISTORY_GLOBAL_MAX_SESSIONS \/ total > HISTORY_GLOBAL_MAX_BYTES

\* ai.ts:562-563 Date.parse(mm[a]?.lastAt || "1970-01-01T00:00:00.000Z")
LastAt(meta, id) == IF id \in DOMAIN meta THEN meta[id] ELSE 0

\* Of the keys lo..hi that are in S the one with the oldest lastAt, the first
\* such key among equals; 0 when there is none. By halves.
RECURSIVE FirstIn(_, _, _, _)
FirstIn(lo, hi, S, meta) ==
    IF lo > hi THEN 0
    ELSE IF lo = hi THEN (IF lo \in S THEN lo ELSE 0)
    ELSE LET a == FirstIn(lo, (lo + hi) \div 2, S, meta)
             b == FirstIn((lo + hi) \div 2 + 1, hi, S, meta)
         IN IF a = 0 THEN b
            ELSE IF b = 0 THEN a
            ELSE IF LastAt(meta, b) < LastAt(meta, a) THEN b ELSE a

\* A mutant of the order: the keys are not sorted.
sortedShiftUnsorted(S, meta) == CHOOSE i \in S : \A j \in S : i <= j

\* ai.ts:560-565 and 567: the head of ids.sort(by lastAt), which sorted.shift()
\* takes. The sort is stable, so among equal lastAt the first key comes first.
sortedShift(S, meta) == FirstIn(1, HISTORY_GLOBAL_MAX_SESSIONS + 1, S, meta)

\* ai.ts:566-572, the loop over sorted
RECURSIVE EvictLoop(_, _, _, _)
EvictLoop(S, total, hs, meta) ==
    IF OverLimits(Cardinality(S), total) /\ S # {}
       THEN LET victim == sortedShift(S, meta)
            IN EvictLoop(S \ {victim}, total - sizeOfHist(HistOf(hs, victim)),
                         DeleteKey(hs, victim), DeleteKey(meta, victim))
       ELSE [histories |-> hs, histMeta |-> meta]

\* ai.ts:551-573
pruneGlobalHistories(hs, meta) ==
    LET ids == HistIds(hs)
        totalBytes == TotalBytes(hs)
    IN IF ids = {} THEN [histories |-> hs, histMeta |-> meta]
       ELSE IF ~OverLimits(Cardinality(ids), totalBytes)
               THEN [histories |-> hs, histMeta |-> meta]
               ELSE EvictLoop(ids, totalBytes, hs, meta)

\* The newest lastAt among the sessions S, 0 for none.
NewestAt(S, meta) ==
    IF S = {} THEN 0
    ELSE LastAt(meta, CHOOSE i \in S : \A j \in S : LastAt(meta, j) <= LastAt(meta, i))
\* The oldest lastAt among the sessions S, 0 for none.
OldestAt(S, meta) ==
    IF S = {} THEN 0
    ELSE LastAt(meta, CHOOSE i \in S : \A j \in S : LastAt(meta, i) <= LastAt(meta, j))

\* ai.ts:575-587: the turn x is appended to the session id, the session is
\* trimmed and stored, and its lastAt is set to the clock reading now
Stored(hs, meta, id, x, now) ==
    LET h0 == Append(HistOf(hs, id), x)
        h1 == TrimItems(h0)
        h2 == TrimBytes(h1, sizeOfHist(h1))
    IN [histories |-> SetKey(hs, id, h2), histMeta |-> SetKey(meta, id, now)]

\* ai.ts:574-588, the histories and their timestamps after pushHist
Pushed(hs, meta, id, x, now) ==
    LET s == Stored(hs, meta, id, x, now)
    IN pruneGlobalHistories(s.histories, s.histMeta)

\* ai.ts:574-588 pushHist(id, role, content) at clock reading now
pushHist(id, turn, now) ==
    /\ pushes < MaxPushes
    /\ LET x    == [role |-> turn.role, len |-> turn.len,
                    n |-> Len(HistOf(histLog, id)) + 1]
           s1   == Stored(histories, histMeta, id, x, now)
           hs1  == s1.histories
           m1   == s1.histMeta
           r    == Pushed(histories, histMeta, id, x, now)
           ev   == HistIds(hs1) \ HistIds(r.histories)
       IN /\ histories' = r.histories
          /\ histMeta' = r.histMeta
          /\ histLog' = [i \in HistIds(r.histories) |->
                            IF i = id THEN Append(HistOf(histLog, id), x) ELSE histLog[i]]
          /\ evicted' = ev
          /\ evictedMax' = IF ev = {} THEN 0 ELSE NewestAt(ev, m1)
          /\ keptMin' = IF ev = {} THEN 0 ELSE OldestAt(HistIds(hs1) \ ev, m1)
          /\ lastNewest' = (\A j \in HistIds(hs1) \ {id} : LastAt(m1, j) < now)
    /\ lastId' = id
    /\ pushes' = pushes + 1
    /\ UNCHANGED <<retryVars, storeVars, compatVars, authVars, moreVars>>

\* ai.ts:1802, "context del": the session of the chat and its timestamp are
\* deleted, then Store.writeSoon.
ContextDel(id) ==
    /\ histories' = DeleteKey(histories, id)
    /\ histMeta' = DeleteKey(histMeta, id)
    /\ histLog' = DeleteKey(histLog, id)
    /\ evicted' = {}
    /\ UNCHANGED <<lastId, evictedMax, keptMin, lastNewest, pushes>>
    /\ WriteSoon
    /\ UNCHANGED <<retryVars, compatVars, authVars, moreVars>>

NextHist ==
    \/ \E id \in ActiveIds, turn \in TurnInputs, now \in ClockReadings :
            pushHist(id, turn, now)
    \/ \E id \in ActiveIds : ContextDel(id)

(***************************************************************************)
(* Part 5: the auth attempts of an adapter call, tryPostJSON and chatOpenAI *)
(***************************************************************************)
\* The entries the list attempts is given with, at most.
MaxAuthAttempts == 3

\* The adapters: chatOpenAI of ai.ts, which calls tryPostJSON and wraps its
\* error, and chatOpenAI of cg.ts, which has the loop in itself.
Adapters == {"ai", "cg"}

\* The errors an attempt is rejected with: status is response.status, 0 with
\* no response; body is response.data.error.message, None when the response
\* has none; message is the message of the error.
AuthErrors ==
    { e \in [status : {0, 401, 429}, body : {None, "invalid api key"},
              message : {"Request failed", "timeout exceeded"}] :
        e.status = 0 => e.body = None }
\* let lastErr: undefined
NoAuthErr == [status |-> -1, body |-> None, message |-> ""]

\* A mutant of the catch block: the first error is kept.
CatchErrFirst(prev, err) == IF prev = NoAuthErr THEN err ELSE prev

\* ai.ts:183 (cg.ts:211) lastErr = err
CatchErr(prev, err) == err

\* ai.ts:750-751: the new Error chatOpenAI throws for lastErr; it has no
\* response, and its message holds the status and the message of lastErr.
WrapErr(err) ==
    LET status == IF err.status = 0 THEN "network" ELSE ToString(err.status)
        msg    == IF err.body # None THEN err.body ELSE err.message
    IN [status |-> 0, body |-> None,
        message |-> "[chatOpenAI] adapter=openai model=gpt-4o-mini status=" \o status
                        \o " message=" \o msg]

\* What the adapter call is rejected with when tryPostJSON threw err
\* (ai.ts:749-752); the loop of cg.ts throws lastErr as it is (cg.ts:216).
ThrownFor(adapter, err) == IF adapter = "ai" THEN WrapErr(err) ELSE err

\* ai.ts:178-181 (cg.ts:201-207): the attempt at the head of the rest of the
\* list gets a response, the call returns it.
AuthAttemptOk ==
    /\ authPc = "try"
    /\ authIdx <= attempts
    /\ authLog' = Append(authLog, [i |-> authIdx, ok |-> TRUE, err |-> NoAuthErr])
    /\ authResult' = authIdx
    /\ authPc' = "returned"
    /\ UNCHANGED <<authAdapter, attempts, authIdx, authLastErr, authThrown>>
    /\ UNCHANGED <<retryVars, storeVars, compatVars, histVars, moreVars>>

\* ai.ts:182-186 (cg.ts:208-216): the attempt is rejected with err, which
\* becomes lastErr; the loop goes on with the next entry, and after the last
\* entry lastErr is thrown, which chatOpenAI of ai.ts catches and wraps.
AuthAttemptFails(err) ==
    /\ authPc = "try"
    /\ authIdx <= attempts
    /\ authLog' = Append(authLog, [i |-> authIdx, ok |-> FALSE, err |-> err])
    /\ authLastErr' = CatchErr(authLastErr, err)
    /\ authIdx' = authIdx + 1
    /\ IF authIdx = attempts
          THEN /\ authPc' = "thrown"
               /\ authThrown' = ThrownFor(authAdapter, authLastErr')
          ELSE UNCHANGED <<authPc, authThrown>>
    /\ UNCHANGED <<authAdapter, attempts, authResult>>
    /\ UNCHANGED <<retryVars, storeVars, compatVars, histVars, moreVars>>

NextAuth ==
    \/ AuthAttemptOk
    \/ \E err \in AuthErrors : AuthAttemptFails(err)

(***************************************************************************)
(* Part 6: the requests of the Gemini adapter, geminiRequestWithFallback    *)
(***************************************************************************)
\* ai.ts:641 and 643-647, mkConfigs: the three configs in the order the
\* preference p.compatauth gives, without those whose headers and params are
\* those of an earlier one; with apiKey undefined JSON.stringify leaves the key
\* out of all three and the first config is the only one.
mkConfigs(pref, keyed) ==
    LET ordered == IF pref \in {"openai", "claude"}
                      THEN <<"cfgAuth", "cfgXGoog", "cfgKey">>
                      ELSE <<"cfgKey", "cfgXGoog", "cfgAuth">>
    IN IF keyed THEN ordered ELSE <<ordered[1]>>

\* ai.ts:650
GemPaths == <<"/v1beta", "/v1">>

\* The errors a request is rejected with: response.status and the text of
\* response.data.
GemErrors == [status : {400, 401, 404, 405}, text : {"unknown method", "api key not valid"}]
\* let lastErr: undefined
NoGemErr == [status |-> -1, text |-> ""]

\* ai.ts:629, the regular expression on the texts of the model
RouteText(txt) == txt \in {"unknown method"}

\* A mutant of the classification: no error is a route error.
isRouteErrorNever(err) == FALSE

\* ai.ts:627-631
isRouteError(err) ==
    \/ err.status = 404
    \/ err.status = 405
    \/ (err.status = 400 /\ RouteText(err.text))

\* ai.ts:654-656: the request with the config at hand at the path at hand gets
\* a response, the call returns it.
GemOk ==
    /\ gemPc = "try"
    /\ gemLog' = Append(gemLog, [path |-> gemPath, cfg |-> gemCfg, ok |-> TRUE,
                                 err |-> NoGemErr])
    /\ gemPc' = "returned"
    /\ UNCHANGED <<gemConfigs, gemPath, gemCfg, gemLastErr, gemThrown>>
    /\ UNCHANGED <<retryVars, storeVars, compatVars, histVars, authVars>>
    /\ UNCHANGED <<buildVars, textVars, callVars, loadVars>>

\* ai.ts:657-663: the request is rejected with err, which becomes lastErr; a
\* route error leaves the loop over the configs; after the last config of a
\* path the next path follows, after the last path lastErr is thrown.
GemFails(err) ==
    /\ gemPc = "try"
    /\ gemLog' = Append(gemLog, [path |-> gemPath, cfg |-> gemCfg, ok |-> FALSE,
                                 err |-> err])
    /\ gemLastErr' = err
    /\ IF ~isRouteError(err) /\ gemCfg < Len(gemConfigs)
          THEN /\ gemCfg' = gemCfg + 1
               /\ UNCHANGED <<gemPath, gemPc, gemThrown>>
          ELSE IF gemPath < Len(GemPaths)
                  THEN /\ gemPath' = gemPath + 1
                       /\ gemCfg' = 1
                       /\ UNCHANGED <<gemPc, gemThrown>>
                  ELSE /\ gemPc' = "thrown"
                       /\ gemThrown' = gemLastErr'
                       /\ UNCHANGED <<gemPath, gemCfg>>
    /\ UNCHANGED gemConfigs
    /\ UNCHANGED <<retryVars, storeVars, compatVars, histVars, authVars>>
    /\ UNCHANGED <<buildVars, textVars, callVars, loadVars>>

NextGem ==
    \/ GemOk
    \/ \E err \in GemErrors : GemFails(err)

(***************************************************************************)
(* Part 7: buildAuthAttempts of the ai plugin and of the cg plugin          *)
(***************************************************************************)
Plugins == {"ai", "cg"}

\* ai.ts:76-82 (cg.ts:40-45), the values of AuthMethod
AuthMethods == {"bearer_token", "api_key_header", "query_param", "basic_auth", "custom_header"}
\* The values of authConfig.headerName, None when it is not given.
HeaderNames == {None, "X-Custom-Auth"}

\* The base URLs of the providers.
BaseUrls ==
    { "https://API.OpenAI.com/v1", "https://api.openai.com/v1", "https://api.moonshot.cn",
      "https://api.anthropic.com", "https://generativelanguage.googleapis.com",
      "https://aiplatform.googleapis.com", "https://aip.baidubce.com/rpc",
      "https://claude.example.org", "https://gemini.example.org",
      "https://llm.example.org", "https://api.deepseek.com" }

\* String.prototype.toLowerCase on the base URLs.
LowerUrl(u) == IF u = "https://API.OpenAI.com/v1" THEN "https://api.openai.com/v1" ELSE u

\* String.prototype.includes on the base URLs, for the substrings the two
\* plugins look for.
Includes(u, sub) ==
    sub \in ( CASE u = "https://api.openai.com/v1" -> {"openai"}
                [] u = "https://api.moonshot.cn" -> {"moonshot"}
                [] u = "https://api.anthropic.com" -> {"anthropic.com", "anthropic"}
                [] u = "https://generativelanguage.googleapis.com" ->
                        {"generativelanguage.googleapis.com", "googleapis"}
                [] u = "https://aiplatform.googleapis.com" ->
                        {"aiplatform.googleapis.com", "googleapis"}
                [] u = "https://aip.baidubce.com/rpc" -> {"aip.baidubce.com"}
                [] u = "https://claude.example.org" -> {"claude"}
                [] u = "https://gemini.example.org" -> {"gemini"}
                [] OTHER -> {} )

\* The providers buildAuthAttempts is called with: with or without authConfig.
NoAuthConfig == [method |-> None, headerName |-> None]
AuthConfigs == [method : AuthMethods, headerName : HeaderNames]
Providers == [authConfig : AuthConfigs \cup {NoAuthConfig}, baseUrl : BaseUrls]
NoProvider == [authConfig |-> NoAuthConfig, baseUrl |-> ""]

\* ai.ts:95-118, buildAuthHeaders: the headers, each by its name and its scheme.
buildAuthHeaders(config) ==
    CASE config.method = "bearer_token" -> {"Authorization: Bearer"}
      [] config.method = "api_key_header" ->
            {IF config.headerName # None THEN config.headerName ELSE "X-API-Key"}
      [] config.method = "custom_header" ->
            IF config.headerName # None THEN {config.headerName} ELSE {}
      [] config.method = "basic_auth" -> {"Authorization: Basic"}
      [] OTHER -> {}

\* cg.ts:90-106, buildAuthHeaders of the cg plugin: it has no case for a
\* custom header.
buildAuthHeadersCg(config) ==
    CASE config.method = "bearer_token" -> {"Authorization: Bearer"}
      [] config.method = "api_key_header" ->
            {IF config.headerName # None THEN config.headerName ELSE "X-API-Key"}
      [] config.method = "basic_auth" -> {"Authorization: Basic"}
      [] OTHER -> {}

\* ai.ts:120-129, buildAuthParams: the names of the query parameters.
buildAuthParams(config) == IF config.method = "query_param" THEN {"key"} ELSE {}

\* ai.ts:131-152
detectAuthMethod(baseUrl) ==
    LET url == LowerUrl(baseUrl)
    IN IF Includes(url, "generativelanguage.googleapis.com")
          \/ Includes(url, "aiplatform.googleapis.com") THEN "query_param"
       ELSE IF Includes(url, "anthropic.com") THEN "api_key_header"
       ELSE IF Includes(url, "aip.baidubce.com") THEN "query_param"
       ELSE "bearer_token"

\* The three attempts of the default of cg.ts:143-147
Bearer == [headers |-> {"Authorization: Bearer"}, params |-> {}]
XApiKey == [headers |-> {"x-api-key"}, params |-> {}]
KeyParam == [headers |-> {}, params |-> {"key"}]

\* ai.ts:155-175, buildAuthAttempts of the ai plugin
buildAuthAttemptsAi(p) ==
    IF p.authConfig # NoAuthConfig
       THEN <<[headers |-> buildAuthHeaders(p.authConfig),
               params |-> buildAuthParams(p.authConfig)]>>
       ELSE LET detectedMethod == detectAuthMethod(p.baseUrl)
                authConfig == [method |-> detectedMethod,
                               headerName |-> IF detectedMethod = "api_key_header"
                                                 THEN "x-api-key" ELSE None]
            IN <<[headers |-> buildAuthHeaders(authConfig),
                  params |-> buildAuthParams(authConfig)]>>

\* cg.ts:118-148, buildAuthAttempts of the cg plugin
buildAuthAttemptsCg(p) ==
    IF p.authConfig # NoAuthConfig
       THEN <<[headers |-> buildAuthHeadersCg(p.authConfig), params |-> {}]>>
       ELSE LET base == LowerUrl(p.baseUrl)
            IN IF Includes(base, "moonshot") \/ Includes(base, "openai") THEN <<Bearer>>
               ELSE IF Includes(base, "anthropic") \/ Includes(base, "claude") THEN <<XApiKey>>
               ELSE IF Includes(base, "googleapis") \/ Includes(base, "gemini") THEN <<KeyParam>>
               ELSE <<Bearer, XApiKey, KeyParam>>

\* A call of buildAuthAttempts returns.
BuildAuthAttempts ==
    /\ ~baDone
    /\ baProvider # NoProvider
    /\ baDone' = TRUE
    /\ baAttempts' = IF baPlugin = "ai" THEN buildAuthAttemptsAi(baProvider)
                     ELSE buildAuthAttemptsCg(baProvider)
    /\ UNCHANGED <<baPlugin, baProvider>>
    /\ UNCHANGED <<retryVars, storeVars, compatVars, histVars, authVars>>
    /\ UNCHANGED <<gemVars, textVars, callVars, loadVars>>

NextBuild == BuildAuthAttempts

(***************************************************************************)
(* Part 8: the chunking of an answer, splitMessage and buildChunks          *)
(***************************************************************************)
\* ai.ts:16
MAX_MSG == 4096
\* ai.ts:17
PAGE_EXTRA == 48
\* ai.ts:18
WRAP_EXTRA_COLLAPSED == 64

\* The lines of a text, at most.
MaxLines == 3

\* A string is the sequence of its lines, the pieces between its line breaks;
\* a line is its length in UTF-16 units and whether it holds a <blockquote tag.
\* The string "" is one line of length 0.
LineLens == {0, 1, 3, 2000, 3984, 4048, 4049, 9000}
Lines == [len : LineLens, bq : {FALSE}] \cup {[len |-> 30, bq |-> TRUE]}
EmptyText == <<[len |-> 0, bq |-> FALSE]>>
Texts == UNION {[1..n -> Lines] : n \in 1..MaxLines}
\* A reserve that leaves a limit of one unit is tried with the texts of at
\* most this many units.
MaxSliced == 5
\* The values of reserve splitMessage is called with.
Reserves == {0, PAGE_EXTRA, PAGE_EXTRA + WRAP_EXTRA_COLLAPSED, 5000}
\* The lengths of the postfix: none, and the footers "Powered by OpenAI" and
\* "Powered by Anthropic Claude with Search" of footer() (ai.ts:466).
PostfixLens == {0, 26, 48}

\* The sum of the lengths of the lines lo..hi of a string.
RECURSIVE SumLens(_, _, _)
SumLens(str, lo, hi) == IF lo > hi THEN 0 ELSE str[lo].len + SumLens(str, lo + 1, hi)
\* String.prototype.length: the lines and the line breaks between them
StrLen(str) == SumLens(str, 1, Len(str)) + (Len(str) - 1)
\* A string as a condition: "" is false.
Truthy(str) == StrLen(str) > 0
\* a + b: the last line of a goes on with the first line of b
Concat(a, b) ==
    SubSeq(a, 1, Len(a) - 1)
        \o <<[len |-> a[Len(a)].len + b[1].len, bq |-> a[Len(a)].bq \/ b[1].bq]>>
        \o SubSeq(b, 2, Len(b))
\* parts.join("")
RECURSIVE ConcatAll(_, _)
ConcatAll(parts, k) ==
    IF k > Len(parts) THEN EmptyText ELSE Concat(parts[k], ConcatAll(parts, k + 1))

\* ai.ts:323
Limit(reserve) == Max(1, MAX_MSG - Max(0, reserve))

\* ai.ts:330, the pieces line.slice(i, i + limit) of a line longer than limit;
\* a tag the line holds is in the first piece.
Slices(line, limit) ==
    [k \in 1..((line.len + limit - 1) \div limit) |->
        <<[len |-> Min(limit, line.len - (k - 1) * limit), bq |-> line.bq /\ k = 1]>>]

\* A mutant of the comparison: the next line always fits.
TooLongNever(next, limit) == FALSE

\* ai.ts:334, next.length > limit
TooLong(next, limit) == StrLen(next) > limit

\* ai.ts:327-335, the loop over text.split("\n") from line i on
RECURSIVE SplitLoop(_, _, _, _, _)
SplitLoop(text, i, limit, parts, cur) ==
    IF i > Len(text)
       THEN IF Truthy(cur) THEN Append(parts, cur) ELSE parts
       ELSE LET line == text[i]
            IN IF line.len > limit
                  THEN SplitLoop(text, i + 1, limit,
                                 (IF Truthy(cur) THEN Append(parts, cur) ELSE parts)
                                     \o Slices(line, limit),
                                 EmptyText)
                  ELSE LET next == IF Truthy(cur) THEN cur \o <<line>> ELSE <<line>>
                       IN IF TooLong(next, limit)
                             THEN SplitLoop(text, i + 1, limit, Append(parts, cur), <<line>>)
                             ELSE SplitLoop(text, i + 1, limit, parts, next)

\* ai.ts:322-338
splitMessage(text, reserve) ==
    LET limit == Limit(reserve)
    IN IF StrLen(text) <= limit THEN <<text>>
       ELSE SplitLoop(text, 1, limit, <<>>, EmptyText)

\* The decimal digits of a page number.
Digits(n) == IF n < 10 THEN 1 ELSE IF n < 100 THEN 2 ELSE IF n < 1000 THEN 3
             ELSE IF n < 10000 THEN 4 ELSE 5
\* ai.ts:286, the length of the header: the page sign (2 units), " (", i + 1,
\* "/", total, ")" and two line breaks
HeaderLen(i, total) == 2 + 2 + Digits(i) + 1 + Digits(total) + 1 + 2

\* The string holds a <blockquote tag.
HasBlockquote(str) == \E k \in 1..Len(str) : str[k].bq

\* ai.ts:270-274, the length of applyWrap(s, collapse) for a string s of length
\* n: the spoiler tags <span class="tg-spoiler"> and </span> around it.
applyWrap(n, quoted, collapse) ==
    IF ~collapse THEN n ELSE IF quoted THEN n ELSE 25 + n + 7

\* ai.ts:276-292, the lengths of the chunks buildChunks returns
buildChunks(text, collapse, postfix) ==
    LET WRAP_EXTRA == IF collapse THEN WRAP_EXTRA_COLLAPSED ELSE 0
        parts == splitMessage(text, PAGE_EXTRA + WRAP_EXTRA)
        total == Len(parts)
    IN IF total = 1
          THEN <<applyWrap(StrLen(parts[1]), HasBlockquote(parts[1]), collapse) + postfix>>
          ELSE [i \in 1..total |->
                  applyWrap(HeaderLen(i, total) + StrLen(parts[i]), HasBlockquote(parts[i]),
                            collapse)
                      + (IF i = total THEN postfix ELSE 0)]

\* A call of splitMessage returns.
SplitMessage ==
    /\ txText # EmptyText
    /\ ~txSplit
    /\ txSplit' = TRUE
    /\ txParts' = splitMessage(txText, txReserve)
    /\ UNCHANGED <<txText, txReserve, txCollapse, txPostfix, txBuilt, txChunks>>
    /\ UNCHANGED <<retryVars, storeVars, compatVars, histVars, authVars>>
    /\ UNCHANGED <<gemVars, buildVars, callVars, loadVars>>

\* A call of buildChunks returns.
BuildChunks ==
    /\ txText # EmptyText
    /\ ~txBuilt
    /\ txBuilt' = TRUE
    /\ txChunks' = buildChunks(txText, txCollapse, txPostfix)
    /\ UNCHANGED <<txText, txReserve, txCollapse, txPostfix, txSplit, txParts>>
    /\ UNCHANGED <<retryVars, storeVars, compatVars, histVars, authVars>>
    /\ UNCHANGED <<gemVars, buildVars, callVars, loadVars>>

NextText ==
    \/ SplitMessage
    \/ BuildChunks

(***************************************************************************)
(* Part 9: concurrent calls of callChat                                     *)
(***************************************************************************)
\* The calls of callChat of one run.
MaxCalls == 2
CallIds == 1..MaxCalls
\* Buffer.byteLength of the text of a call and of the answer of the adapter
CallTexts == {1024, 70000}
CallAnswers == {1024, 65000}
\* What new Date() reads in the two pushHist calls of a call.
CallClock == {1, FillCount + 1}
\* A call: where it is ("idle", "awaiting" the adapter, "returned", "failed"),
\* its session, the length of its text and of its answer, and its place in the
\* order of the completions.
IdleCall == [st |-> "idle", id |-> 0, len |-> 0, out |-> 0, seq |-> 0]

\* ai.ts:1799-1800, "context on" and "context off"
ContextSet(b) ==
    /\ contextEnabled' = b
    /\ WriteSoon
    /\ UNCHANGED <<calls, completions>>
    /\ UNCHANGED <<retryVars, compatVars, histVars, authVars>>
    /\ UNCHANGED <<gemVars, buildVars, textVars, loadVars>>

\* ai.ts:1289-1304: callChat(kind, text, msg) builds msgs and awaits the
\* adapter; id is chatIdStr(msg).
CallStart(c, id, len) ==
    /\ calls[c].st = "idle"
    /\ calls' = [calls EXCEPT ![c] = [st |-> "awaiting", id |-> id, len |-> len,
                                      out |-> 0, seq |-> 0]]
    /\ UNCHANGED <<contextEnabled, completions>>
    /\ UNCHANGED <<retryVars, storeVars, compatVars, histVars, authVars>>
    /\ UNCHANGED <<gemVars, buildVars, textVars, loadVars>>

\* ai.ts:1305-1308: the adapter rejects, callChat throws a new Error
CallFails(c) ==
    /\ calls[c].st = "awaiting"
    /\ calls' = [calls EXCEPT ![c].st = "failed"]
    /\ UNCHANGED <<contextEnabled, completions>>
    /\ UNCHANGED <<retryVars, storeVars, compatVars, histVars, authVars>>
    /\ UNCHANGED <<gemVars, buildVars, textVars, loadVars>>

\* A mutant of the order of the two pushHist calls: the answer first.
CallTurnsSwapped(c, len, out) ==
    <<[role |-> "assistant", len |-> out, n |-> c], [role |-> "user", len |-> len, n |-> c]>>

\* ai.ts:1311-1312, the turns of a call in the order of their pushHist calls;
\* n is the call they are of.
CallTurns(c, len, out) ==
    <<[role |-> "user", len |-> len, n |-> c], [role |-> "assistant", len |-> out, n |-> c]>>

\* ai.ts:1300-1303 and 1310-1316: the adapter resolves with out and callChat
\* goes on to its return: with the context enabled the two pushHist calls,
\* which read the clock as now1 and now2, and Store.writeSoon.
CallReturns(c, out, now1, now2) ==
    /\ calls[c].st = "awaiting"
    /\ calls' = [calls EXCEPT ![c].st = "returned", ![c].out = out,
                              ![c].seq = completions + 1]
    /\ completions' = completions + 1
    /\ IF contextEnabled
          THEN LET turns == CallTurns(c, calls[c].len, out)
                   r1 == Pushed(histories, histMeta, calls[c].id, turns[1], now1)
                   r2 == Pushed(r1.histories, r1.histMeta, calls[c].id, turns[2], now2)
               IN /\ histories' = r2.histories
                  /\ histMeta' = r2.histMeta
                  /\ WriteSoon
          ELSE UNCHANGED <<histories, histMeta, storeVars>>
    /\ UNCHANGED <<histLog, lastId, evicted, evictedMax, keptMin, lastNewest, pushes>>
    /\ UNCHANGED contextEnabled
    /\ UNCHANGED <<retryVars, compatVars, authVars>>
    /\ UNCHANGED <<gemVars, buildVars, textVars, loadVars>>

NextCalls ==
    \/ \E b \in BOOLEAN : ContextSet(b)
    \/ \E c \in CallIds, id \in ActiveIds, len \in CallTexts : CallStart(c, id, len)
    \/ \E c \in CallIds : CallFails(c)
    \/ \E c \in CallIds, out \in CallAnswers, now1 \in CallClock, now2 \in CallClock :
            CallReturns(c, out, now1, now2)
    \/ \E id \in ActiveIds : ContextDel(id)

(***************************************************************************)
(* The specifications                                                      *)
(***************************************************************************)
vars == <<retryVars, storeVars, compatVars, histVars, authVars, moreVars>>

\* The retrying client, for one call of axiosWithRetry.
InitOfRetry ==
    /\ tries \in 0..MaxTries /\ attempt = 0 /\ lastErr = NoErr /\ retryPc = "request"
    /\ thrown = NoErr /\ requests = 0 /\ sleeps = 0 /\ allRetryable = TRUE
    /\ alive = TRUE /\ mem = 0 /\ writeTimer = 0
    /\ timers = [t \in TimerIds |-> FreeTimer]
    /\ sinceMut = writeSoonDelay /\ targetIno = 1 /\ tmpIno = 0
    /\ inodes = [i \in InodeIds |-> IF i = 1 THEN Serialize(0) ELSE <<>>]
    /\ burstWrites = 0 /\ writeBeforeLast = FALSE
    /\ initPc = "unloaded" /\ persisted = CHOOSE d \in PersistedDocs : d.dataVersion = 0
    /\ providers = <<>> /\ models = NoModels /\ modelCompat = NoCompat
    /\ catalog = EmptyMap /\ compatResolving = [k \in PairKeys \cup NameKeys |-> 0]
    /\ probes = [i \in ProbeIds |-> FreeProbe] /\ refreshTimers = 0
    /\ refreshing = FALSE /\ lastPromise = 0
    /\ refreshes = [i \in RefreshIds |-> FreeRefresh]
    /\ manual = NoCompat /\ lastRet = [k \in PairKeys |-> None]
    /\ unstable = FALSE /\ overrideIgnored = FALSE /\ joinedStale = FALSE
    /\ tainted = [k \in PairKeys |-> FALSE] /\ commands = 0 /\ probeLog = NoLogs
    /\ histories = NoKeys /\ histMeta = NoKeys /\ histLog = NoKeys
    /\ lastId = 0 /\ evicted = {}
    /\ evictedMax = 0 /\ keptMin = 0 /\ lastNewest = FALSE /\ pushes = 0
    /\ authAdapter = "ai" /\ attempts = 1 /\ authIdx = 1 /\ authPc = "idle"
    /\ authLastErr = NoAuthErr /\ authLog = <<>> /\ authResult = 0 /\ authThrown = NoAuthErr
    /\ gemConfigs = <<>> /\ gemPath = 1 /\ gemCfg = 1 /\ gemPc = "idle" /\ gemLastErr = NoGemErr
    /\ gemLog = <<>> /\ gemThrown = NoGemErr
    /\ baPlugin = "ai" /\ baProvider = NoProvider /\ baDone = FALSE /\ baAttempts = <<>>
    /\ txText = EmptyText /\ txReserve = 0 /\ txCollapse = FALSE /\ txPostfix = 0
    /\ txSplit = FALSE /\ txParts = <<>> /\ txBuilt = FALSE /\ txChunks = <<>>
    /\ contextEnabled = FALSE /\ calls = [c \in CallIds |-> IdleCall] /\ completions = 0
    /\ pendingLoads = 0 /\ reloads = 0 /\ discarded = FALSE

\* The persistence, with no call of axiosWithRetry and the store not loaded.
InitOfStore ==
    /\ tries = DefaultTries /\ attempt = 0 /\ lastErr = NoErr /\ retryPc = "returned"
    /\ thrown = NoErr /\ requests = 0 /\ sleeps = 0 /\ allRetryable = TRUE
    /\ alive = TRUE /\ mem = 0 /\ writeTimer = 0
    /\ timers = [t \in TimerIds |-> FreeTimer]
    /\ sinceMut = writeSoonDelay /\ targetIno = 1 /\ tmpIno = 0
    /\ inodes = [i \in InodeIds |-> IF i = 1 THEN Serialize(0) ELSE <<>>]
    /\ burstWrites = 0 /\ writeBeforeLast = FALSE
    /\ initPc = "unloaded" /\ persisted = CHOOSE d \in PersistedDocs : d.dataVersion = 0
    /\ providers = <<>> /\ models = NoModels /\ modelCompat = NoCompat
    /\ catalog = EmptyMap /\ compatResolving = [k \in PairKeys \cup NameKeys |-> 0]
    /\ probes = [i \in ProbeIds |-> FreeProbe] /\ refreshTimers = 0
    /\ refreshing = FALSE /\ lastPromise = 0
    /\ refreshes = [i \in RefreshIds |-> FreeRefresh]
    /\ manual = NoCompat /\ lastRet = [k \in PairKeys |-> None]
    /\ unstable = FALSE /\ overrideIgnored = FALSE /\ joinedStale = FALSE
    /\ tainted = [k \in PairKeys |-> FALSE] /\ commands = 0 /\ probeLog = NoLogs
    /\ histories = NoKeys /\ histMeta = NoKeys /\ histLog = NoKeys
    /\ lastId = 0 /\ evicted = {}
    /\ evictedMax = 0 /\ keptMin = 0 /\ lastNewest = FALSE /\ pushes = 0
    /\ authAdapter = "ai" /\ attempts = 1 /\ authIdx = 1 /\ authPc = "idle"
    /\ authLastErr = NoAuthErr /\ authLog = <<>> /\ authResult = 0 /\ authThrown = NoAuthErr
    /\ gemConfigs = <<>> /\ gemPath = 1 /\ gemCfg = 1 /\ gemPc = "idle" /\ gemLastErr = NoGemErr
    /\ gemLog = <<>> /\ gemThrown = NoGemErr
    /\ baPlugin = "ai" /\ baProvider = NoProvider /\ baDone = FALSE /\ baAttempts = <<>>
    /\ txText = EmptyText /\ txReserve = 0 /\ txCollapse = FALSE /\ txPostfix = 0
    /\ txSplit = FALSE /\ txParts = <<>> /\ txBuilt = FALSE /\ txChunks = <<>>
    /\ contextEnabled = FALSE /\ calls = [c \in CallIds |-> IdleCall] /\ completions = 0
    /\ pendingLoads = 0 /\ reloads = 0 /\ discarded = FALSE

\* The resolver and the commands, from the start of the process.
Init ==
    /\ tries = DefaultTries /\ attempt = 0 /\ lastErr = NoErr /\ retryPc = "returned"
    /\ thrown = NoErr /\ requests = 0 /\ sleeps = 0 /\ allRetryable = TRUE
    /\ alive = TRUE /\ mem = 0 /\ writeTimer = 0
    /\ timers = [t \in TimerIds |-> FreeTimer]
    /\ sinceMut = writeSoonDelay /\ targetIno = 1 /\ tmpIno = 0
    /\ inodes = [i \in InodeIds |-> IF i = 1 THEN Serialize(0) ELSE <<>>]
    /\ burstWrites = 0 /\ writeBeforeLast = FALSE
    /\ initPc = "unloaded" /\ persisted \in PersistedDocs
    /\ providers = <<>> /\ models = NoModels /\ modelCompat = NoCompat
    /\ catalog = EmptyMap /\ compatResolving = [k \in PairKeys \cup NameKeys |-> 0]
    /\ probes = [i \in ProbeIds |-> FreeProbe] /\ refreshTimers = 0
    /\ refreshing = FALSE /\ lastPromise = 0
    /\ refreshes = [i \in RefreshIds |-> FreeRefresh]
    /\ manual = NoCompat /\ lastRet = [k \in PairKeys |-> None]
    /\ unstable = FALSE /\ overrideIgnored = FALSE /\ joinedStale = FALSE
    /\ tainted = [k \in PairKeys |-> FALSE] /\ commands = 0 /\ probeLog = NoLogs
    /\ histories = NoKeys /\ histMeta = NoKeys /\ histLog = NoKeys
    /\ lastId = 0 /\ evicted = {}
    /\ evictedMax = 0 /\ keptMin = 0 /\ lastNewest = FALSE /\ pushes = 0
    /\ authAdapter = "ai" /\ attempts = 1 /\ authIdx = 1 /\ authPc = "idle"
    /\ authLastErr = NoAuthErr /\ authLog = <<>> /\ authResult = 0 /\ authThrown = NoAuthErr
    /\ gemConfigs = <<>> /\ gemPath = 1 /\ gemCfg = 1 /\ gemPc = "idle" /\ gemLastErr = NoGemErr
    /\ gemLog = <<>> /\ gemThrown = NoGemErr
    /\ baPlugin = "ai" /\ baProvider = NoProvider /\ baDone = FALSE /\ baAttempts = <<>>
    /\ txText = EmptyText /\ txReserve = 0 /\ txCollapse = FALSE /\ txPostfix = 0
    /\ txSplit = FALSE /\ txParts = <<>> /\ txBuilt = FALSE /\ txChunks = <<>>
    /\ contextEnabled = FALSE /\ calls = [c \in CallIds |-> IdleCall] /\ completions = 0
    /\ pendingLoads = 0 /\ reloads = 0 /\ discarded = FALSE

\* The histories: the store holds the sessions that fill it, each with one
\* turn and written one after the other, the highest id first; or it holds
\* nothing, or session 1 alone with MAX_ITEMS - 1 turns of 1 KiB.
InitOfHist ==
    /\ tries = DefaultTries /\ attempt = 0 /\ lastErr = NoErr /\ retryPc = "returned"
    /\ thrown = NoErr /\ requests = 0 /\ sleeps = 0 /\ allRetryable = TRUE
    /\ alive = TRUE /\ mem = 0 /\ writeTimer = 0
    /\ timers = [t \in TimerIds |-> FreeTimer]
    /\ sinceMut = writeSoonDelay /\ targetIno = 1 /\ tmpIno = 0
    /\ inodes = [i \in InodeIds |-> IF i = 1 THEN Serialize(0) ELSE <<>>]
    /\ burstWrites = 0 /\ writeBeforeLast = FALSE
    /\ initPc = "unloaded" /\ persisted = CHOOSE d \in PersistedDocs : d.dataVersion = 0
    /\ providers = <<>> /\ models = NoModels /\ modelCompat = NoCompat
    /\ catalog = EmptyMap /\ compatResolving = [k \in PairKeys \cup NameKeys |-> 0]
    /\ probes = [i \in ProbeIds |-> FreeProbe] /\ refreshTimers = 0
    /\ refreshing = FALSE /\ lastPromise = 0
    /\ refreshes = [i \in RefreshIds |-> FreeRefresh]
    /\ manual = NoCompat /\ lastRet = [k \in PairKeys |-> None]
    /\ unstable = FALSE /\ overrideIgnored = FALSE /\ joinedStale = FALSE
    /\ tainted = [k \in PairKeys |-> FALSE] /\ commands = 0 /\ probeLog = NoLogs
    /\ \E filled \in BOOLEAN, pre \in {0, MAX_ITEMS - 1} :
          LET ids == (IF filled THEN FillIds ELSE {}) \cup (IF pre > 0 THEN {1} ELSE {})
              h   == [i \in ids |->
                        IF i = 1
                           THEN [k \in 1..pre |-> [role |-> "user", len |-> 1024, n |-> k]]
                           ELSE <<[role |-> "user", len |-> FillBytes, n |-> 1]>>]
          IN /\ ~(filled /\ pre > 0)
             /\ histories = h
             /\ histLog = h
             /\ histMeta = [i \in ids |-> IF i = 1 THEN FillCount + 1
                                          ELSE HISTORY_GLOBAL_MAX_SESSIONS + 2 - i]
    /\ lastId = 0 /\ evicted = {}
    /\ evictedMax = 0 /\ keptMin = 0 /\ lastNewest = FALSE /\ pushes = 0
    /\ authAdapter = "ai" /\ attempts = 1 /\ authIdx = 1 /\ authPc = "idle"
    /\ authLastErr = NoAuthErr /\ authLog = <<>> /\ authResult = 0 /\ authThrown = NoAuthErr
    /\ gemConfigs = <<>> /\ gemPath = 1 /\ gemCfg = 1 /\ gemPc = "idle" /\ gemLastErr = NoGemErr
    /\ gemLog = <<>> /\ gemThrown = NoGemErr
    /\ baPlugin = "ai" /\ baProvider = NoProvider /\ baDone = FALSE /\ baAttempts = <<>>
    /\ txText = EmptyText /\ txReserve = 0 /\ txCollapse = FALSE /\ txPostfix = 0
    /\ txSplit = FALSE /\ txParts = <<>> /\ txBuilt = FALSE /\ txChunks = <<>>
    /\ contextEnabled = FALSE /\ calls = [c \in CallIds |-> IdleCall] /\ completions = 0
    /\ pendingLoads = 0 /\ reloads = 0 /\ discarded = FALSE

\* An adapter call with a list of one or more attempts.
InitOfAuth ==
    /\ tries = DefaultTries /\ attempt = 0 /\ lastErr = NoErr /\ retryPc = "returned"
    /\ thrown = NoErr /\ requests = 0 /\ sleeps = 0 /\ allRetryable = TRUE
    /\ alive = TRUE /\ mem = 0 /\ writeTimer = 0
    /\ timers = [t \in TimerIds |-> FreeTimer]
    /\ sinceMut = writeSoonDelay /\ targetIno = 1 /\ tmpIno = 0
    /\ inodes = [i \in InodeIds |-> IF i = 1 THEN Serialize(0) ELSE <<>>]
    /\ burstWrites = 0 /\ writeBeforeLast = FALSE
    /\ initPc = "unloaded" /\ persisted = CHOOSE d \in PersistedDocs : d.dataVersion = 0
    /\ providers = <<>> /\ models = NoModels /\ modelCompat = NoCompat
    /\ catalog = EmptyMap /\ compatResolving = [k \in PairKeys \cup NameKeys |-> 0]
    /\ probes = [i \in ProbeIds |-> FreeProbe] /\ refreshTimers = 0
    /\ refreshing = FALSE /\ lastPromise = 0
    /\ refreshes = [i \in RefreshIds |-> FreeRefresh]
    /\ manual = NoCompat /\ lastRet = [k \in PairKeys |-> None]
    /\ unstable = FALSE /\ overrideIgnored = FALSE /\ joinedStale = FALSE
    /\ tainted = [k \in PairKeys |-> FALSE] /\ commands = 0 /\ probeLog = NoLogs
    /\ histories = NoKeys /\ histMeta = NoKeys /\ histLog = NoKeys /\ lastId = 0
    /\ evicted = {} /\ evictedMax = 0 /\ keptMin = 0 /\ lastNewest = FALSE /\ pushes = 0
    /\ authAdapter \in Adapters /\ attempts \in 1..MaxAuthAttempts
    /\ authIdx = 1 /\ authPc = "try"
    /\ authLastErr = NoAuthErr /\ authLog = <<>> /\ authResult = 0 /\ authThrown = NoAuthErr
    /\ gemConfigs = <<>> /\ gemPath = 1 /\ gemCfg = 1 /\ gemPc = "idle" /\ gemLastErr = NoGemErr
    /\ gemLog = <<>> /\ gemThrown = NoGemErr
    /\ baPlugin = "ai" /\ baProvider = NoProvider /\ baDone = FALSE /\ baAttempts = <<>>
    /\ txText = EmptyText /\ txReserve = 0 /\ txCollapse = FALSE /\ txPostfix = 0
    /\ txSplit = FALSE /\ txParts = <<>> /\ txBuilt = FALSE /\ txChunks = <<>>
    /\ contextEnabled = FALSE /\ calls = [c \in CallIds |-> IdleCall] /\ completions = 0
    /\ pendingLoads = 0 /\ reloads = 0 /\ discarded = FALSE

\* A request of the Gemini adapter, for every list mkConfigs can return.
InitOfGem ==
    /\ tries = DefaultTries /\ attempt = 0 /\ lastErr = NoErr /\ retryPc = "returned"
    /\ thrown = NoErr /\ requests = 0 /\ sleeps = 0 /\ allRetryable = TRUE
    /\ alive = TRUE /\ mem = 0 /\ writeTimer = 0
    /\ timers = [t \in TimerIds |-> FreeTimer]
    /\ sinceMut = writeSoonDelay /\ targetIno = 1 /\ tmpIno = 0
    /\ inodes = [i \in InodeIds |-> IF i = 1 THEN Serialize(0) ELSE <<>>]
    /\ burstWrites = 0 /\ writeBeforeLast = FALSE
    /\ initPc = "unloaded" /\ persisted = CHOOSE d \in PersistedDocs : d.dataVersion = 0
    /\ providers = <<>> /\ models = NoModels /\ modelCompat = NoCompat
    /\ catalog = EmptyMap /\ compatResolving = [k \in PairKeys \cup NameKeys |-> 0]
    /\ probes = [i \in ProbeIds |-> FreeProbe] /\ refreshTimers = 0
    /\ refreshing = FALSE /\ lastPromise = 0
    /\ refreshes = [i \in RefreshIds |-> FreeRefresh]
    /\ manual = NoCompat /\ lastRet = [k \in PairKeys |-> None]
    /\ unstable = FALSE /\ overrideIgnored = FALSE /\ joinedStale = FALSE
    /\ tainted = [k \in PairKeys |-> FALSE] /\ commands = 0 /\ probeLog = NoLogs
    /\ histories = NoKeys /\ histMeta = NoKeys /\ histLog = NoKeys /\ lastId = 0
    /\ evicted = {} /\ evictedMax = 0 /\ keptMin = 0 /\ lastNewest = FALSE /\ pushes = 0
    /\ authAdapter = "ai" /\ attempts = 1 /\ authIdx = 1 /\ authPc = "idle"
    /\ authLastErr = NoAuthErr /\ authLog = <<>> /\ authResult = 0 /\ authThrown = NoAuthErr
    /\ \E pref \in Compats \cup {None}, keyed \in BOOLEAN : gemConfigs = mkConfigs(pref, keyed)
    /\ gemPath = 1 /\ gemCfg = 1 /\ gemPc = "try" /\ gemLastErr = NoGemErr
    /\ gemLog = <<>> /\ gemThrown = NoGemErr
    /\ baPlugin = "ai" /\ baProvider = NoProvider /\ baDone = FALSE /\ baAttempts = <<>>
    /\ txText = EmptyText /\ txReserve = 0 /\ txCollapse = FALSE /\ txPostfix = 0
    /\ txSplit = FALSE /\ txParts = <<>> /\ txBuilt = FALSE /\ txChunks = <<>>
    /\ contextEnabled = FALSE /\ calls = [c \in CallIds |-> IdleCall] /\ completions = 0
    /\ pendingLoads = 0 /\ reloads = 0 /\ discarded = FALSE

\* A call of buildAuthAttempts of either plugin, for every provider.
InitOfBuild ==
    /\ tries = DefaultTries /\ attempt = 0 /\ lastErr = NoErr /\ retryPc = "returned"
    /\ thrown = NoErr /\ requests = 0 /\ sleeps = 0 /\ allRetryable = TRUE
    /\ alive = TRUE /\ mem = 0 /\ writeTimer = 0
    /\ timers = [t \in TimerIds |-> FreeTimer]
    /\ sinceMut = writeSoonDelay /\ targetIno = 1 /\ tmpIno = 0
    /\ inodes = [i \in InodeIds |-> IF i = 1 THEN Serialize(0) ELSE <<>>]
    /\ burstWrites = 0 /\ writeBeforeLast = FALSE
    /\ initPc = "unloaded" /\ persisted = CHOOSE d \in PersistedDocs : d.dataVersion = 0
    /\ providers = <<>> /\ models = NoModels /\ modelCompat = NoCompat
    /\ catalog = EmptyMap /\ compatResolving = [k \in PairKeys \cup NameKeys |-> 0]
    /\ probes = [i \in ProbeIds |-> FreeProbe] /\ refreshTimers = 0
    /\ refreshing = FALSE /\ lastPromise = 0
    /\ refreshes = [i \in RefreshIds |-> FreeRefresh]
    /\ manual = NoCompat /\ lastRet = [k \in PairKeys |-> None]
    /\ unstable = FALSE /\ overrideIgnored = FALSE /\ joinedStale = FALSE
    /\ tainted = [k \in PairKeys |-> FALSE] /\ commands = 0 /\ probeLog = NoLogs
    /\ histories = NoKeys /\ histMeta = NoKeys /\ histLog = NoKeys /\ lastId = 0
    /\ evicted = {} /\ evictedMax = 0 /\ keptMin = 0 /\ lastNewest = FALSE /\ pushes = 0
    /\ authAdapter = "ai" /\ attempts = 1 /\ authIdx = 1 /\ authPc = "idle"
    /\ authLastErr = NoAuthErr /\ authLog = <<>> /\ authResult = 0 /\ authThrown = NoAuthErr
    /\ gemConfigs = <<>> /\ gemPath = 1 /\ gemCfg = 1 /\ gemPc = "idle" /\ gemLastErr = NoGemErr
    /\ gemLog = <<>> /\ gemThrown = NoGemErr
    /\ baPlugin \in Plugins /\ baProvider \in Providers /\ baDone = FALSE /\ baAttempts = <<>>
    /\ txText = EmptyText /\ txReserve = 0 /\ txCollapse = FALSE /\ txPostfix = 0
    /\ txSplit = FALSE /\ txParts = <<>> /\ txBuilt = FALSE /\ txChunks = <<>>
    /\ contextEnabled = FALSE /\ calls = [c \in CallIds |-> IdleCall] /\ completions = 0
    /\ pendingLoads = 0 /\ reloads = 0 /\ discarded = FALSE

\* A call of splitMessage and a call of buildChunks, for every text.
InitOfText ==
    /\ tries = DefaultTries /\ attempt = 0 /\ lastErr = NoErr /\ retryPc = "returned"
    /\ thrown = NoErr /\ requests = 0 /\ sleeps = 0 /\ allRetryable = TRUE
    /\ alive = TRUE /\ mem = 0 /\ writeTimer = 0
    /\ timers = [t \in TimerIds |-> FreeTimer]
    /\ sinceMut = writeSoonDelay /\ targetIno = 1 /\ tmpIno = 0
    /\ inodes = [i \in InodeIds |-> IF i = 1 THEN Serialize(0) ELSE <<>>]
    /\ burstWrites = 0 /\ writeBeforeLast = FALSE
    /\ initPc = "unloaded" /\ persisted = CHOOSE d \in PersistedDocs : d.dataVersion = 0
    /\ providers = <<>> /\ models = NoModels /\ modelCompat = NoCompat
    /\ catalog = EmptyMap /\ compatResolving = [k \in PairKeys \cup NameKeys |-> 0]
    /\ probes = [i \in ProbeIds |-> FreeProbe] /\ refreshTimers = 0
    /\ refreshing = FALSE /\ lastPromise = 0
    /\ refreshes = [i \in RefreshIds |-> FreeRefresh]
    /\ manual = NoCompat /\ lastRet = [k \in PairKeys |-> None]
    /\ unstable = FALSE /\ overrideIgnored = FALSE /\ joinedStale = FALSE
    /\ tainted = [k \in PairKeys |-> FALSE] /\ commands = 0 /\ probeLog = NoLogs
    /\ histories = NoKeys /\ histMeta = NoKeys /\ histLog = NoKeys /\ lastId = 0
    /\ evicted = {} /\ evictedMax = 0 /\ keptMin = 0 /\ lastNewest = FALSE /\ pushes = 0
    /\ authAdapter = "ai" /\ attempts = 1 /\ authIdx = 1 /\ authPc = "idle"
    /\ authLastErr = NoAuthErr /\ authLog = <<>> /\ authResult = 0 /\ authThrown = NoAuthErr
    /\ gemConfigs = <<>> /\ gemPath = 1 /\ gemCfg = 1 /\ gemPc = "idle" /\ gemLastErr = NoGemErr
    /\ gemLog = <<>> /\ gemThrown = NoGemErr
    /\ baPlugin = "ai" /\ baProvider = NoProvider /\ baDone = FALSE /\ baAttempts = <<>>
    /\ txText \in Texts \ {EmptyText} /\ txCollapse \in BOOLEAN
    /\ txReserve \in {r \in Reserves : Limit(r) = 1 => StrLen(txText) <= MaxSliced}
    /\ txPostfix \in PostfixLens
    /\ txSplit = FALSE /\ txParts = <<>> /\ txBuilt = FALSE /\ txChunks = <<>>
    /\ contextEnabled = FALSE /\ calls = [c \in CallIds |-> IdleCall] /\ completions = 0
    /\ pendingLoads = 0 /\ reloads = 0 /\ discarded = FALSE

\* Concurrent calls of callChat, on an empty store of histories and on a full one.
InitOfCalls ==
    /\ tries = DefaultTries /\ attempt = 0 /\ lastErr = NoErr /\ retryPc = "returned"
    /\ thrown = NoErr /\ requests = 0 /\ sleeps = 0 /\ allRetryable = TRUE
    /\ alive = TRUE /\ mem = 0 /\ writeTimer = 0
    /\ timers = [t \in TimerIds |-> FreeTimer]
    /\ sinceMut = writeSoonDelay /\ targetIno = 1 /\ tmpIno = 0
    /\ inodes = [i \in InodeIds |-> IF i = 1 THEN Serialize(0) ELSE <<>>]
    /\ burstWrites = 0 /\ writeBeforeLast = FALSE
    /\ initPc = "unloaded" /\ persisted = CHOOSE d \in PersistedDocs : d.dataVersion = 0
    /\ providers = <<>> /\ models = NoModels /\ modelCompat = NoCompat
    /\ catalog = EmptyMap /\ compatResolving = [k \in PairKeys \cup NameKeys |-> 0]
    /\ probes = [i \in ProbeIds |-> FreeProbe] /\ refreshTimers = 0
    /\ refreshing = FALSE /\ lastPromise = 0
    /\ refreshes = [i \in RefreshIds |-> FreeRefresh]
    /\ manual = NoCompat /\ lastRet = [k \in PairKeys |-> None]
    /\ unstable = FALSE /\ overrideIgnored = FALSE /\ joinedStale = FALSE
    /\ tainted = [k \in PairKeys |-> FALSE] /\ commands = 0 /\ probeLog = NoLogs
    /\ \E filled \in BOOLEAN :
          LET ids == IF filled THEN FillIds ELSE {}
          IN /\ histories = [i \in ids |-> <<[role |-> "user", len |-> FillBytes, n |-> 0]>>]
             /\ histMeta = [i \in ids |-> HISTORY_GLOBAL_MAX_SESSIONS + 2 - i]
    /\ histLog = NoKeys /\ lastId = 0
    /\ evicted = {} /\ evictedMax = 0 /\ keptMin = 0 /\ lastNewest = FALSE /\ pushes = 0
    /\ authAdapter = "ai" /\ attempts = 1 /\ authIdx = 1 /\ authPc = "idle"
    /\ authLastErr = NoAuthErr /\ authLog = <<>> /\ authResult = 0 /\ authThrown = NoAuthErr
    /\ gemConfigs = <<>> /\ gemPath = 1 /\ gemCfg = 1 /\ gemPc = "idle" /\ gemLastErr = NoGemErr
    /\ gemLog = <<>> /\ gemThrown = NoGemErr
    /\ baPlugin = "ai" /\ baProvider = NoProvider /\ baDone = FALSE /\ baAttempts = <<>>
    /\ txText = EmptyText /\ txReserve = 0 /\ txCollapse = FALSE /\ txPostfix = 0
    /\ txSplit = FALSE /\ txParts = <<>> /\ txBuilt = FALSE /\ txChunks = <<>>
    /\ contextEnabled \in BOOLEAN /\ calls = [c \in CallIds |-> IdleCall] /\ completions = 0
    /\ pendingLoads = 0 /\ reloads = 0 /\ discarded = FALSE

\* Store.init called by several handlers at once.
InitOfLoads ==
    /\ tries = DefaultTries /\ attempt = 0 /\ lastErr = NoErr /\ retryPc = "returned"
    /\ thrown = NoErr /\ requests = 0 /\ sleeps = 0 /\ allRetryable = TRUE
    /\ alive = TRUE /\ mem = 0 /\ writeTimer = 0
    /\ timers = [t \in TimerIds |-> FreeTimer]
    /\ sinceMut = writeSoonDelay /\ targetIno = 1 /\ tmpIno = 0
    /\ inodes = [i \in InodeIds |-> IF i = 1 THEN Serialize(0) ELSE <<>>]
    /\ burstWrites = 0 /\ writeBeforeLast = FALSE
    /\ initPc = "unloaded" /\ persisted \in PersistedDocs
    /\ providers = <<>> /\ models = NoModels /\ modelCompat = NoCompat
    /\ catalog = EmptyMap /\ compatResolving = [k \in PairKeys \cup NameKeys |-> 0]
    /\ probes = [i \in ProbeIds |-> FreeProbe] /\ refreshTimers = 0
    /\ refreshing = FALSE /\ lastPromise = 0
    /\ refreshes = [i \in RefreshIds |-> FreeRefresh]
    /\ manual = NoCompat /\ lastRet = [k \in PairKeys |-> None]
    /\ unstable = FALSE /\ overrideIgnored = FALSE /\ joinedStale = FALSE
    /\ tainted = [k \in PairKeys |-> FALSE] /\ commands = 0 /\ probeLog = NoLogs
    /\ histories = NoKeys /\ histMeta = NoKeys /\ histLog = NoKeys
    /\ lastId = 0 /\ evicted = {}
    /\ evictedMax = 0 /\ keptMin = 0 /\ lastNewest = FALSE /\ pushes = 0
    /\ authAdapter = "ai" /\ attempts = 1 /\ authIdx = 1 /\ authPc = "idle"
    /\ authLastErr = NoAuthErr /\ authLog = <<>> /\ authResult = 0 /\ authThrown = NoAuthErr
    /\ gemConfigs = <<>> /\ gemPath = 1 /\ gemCfg = 1 /\ gemPc = "idle" /\ gemLastErr = NoGemErr
    /\ gemLog = <<>> /\ gemThrown = NoGemErr
    /\ baPlugin = "ai" /\ baProvider = NoProvider /\ baDone = FALSE /\ baAttempts = <<>>
    /\ txText = EmptyText /\ txReserve = 0 /\ txCollapse = FALSE /\ txPostfix = 0
    /\ txSplit = FALSE /\ txParts = <<>> /\ txBuilt = FALSE /\ txChunks = <<>>
    /\ contextEnabled = FALSE /\ calls = [c \in CallIds |-> IdleCall] /\ completions = 0
    /\ pendingLoads = 0 /\ reloads = 0 /\ discarded = FALSE

Spec == Init /\ [][Next]_vars
SpecRetry == InitOfRetry /\ [][NextRetry]_vars
SpecStore == InitOfStore /\ [][NextStore]_vars
SpecHist == InitOfHist /\ [][NextHist]_vars
SpecAuth == InitOfAuth /\ [][NextAuth]_vars
SpecGem == InitOfGem /\ [][NextGem]_vars
SpecBuild == InitOfBuild /\ [][NextBuild]_vars
SpecText == InitOfText /\ [][NextText]_vars
SpecCalls == InitOfCalls /\ [][NextCalls]_vars
SpecInit == InitOfLoads /\ [][NextInit]_vars

(***************************************************************************)
(* The properties                                                          *)
(***************************************************************************)
RunningFor(key) ==
    {i \in ProbeIds : probes[i].st = "run" /\ <<probes[i].name, probes[i].ml>> = key}

\* C1: once resolveCompat has returned a value for a provider and a model,
\* every later call for them returns the same value as long as no
\* configuration command runs in between, whatever probes and catalog
\* refreshes complete in between.
C1_Stable == ~unstable

\* C2: where a manual override exists for a provider and a model,
\* resolveCompat returns the value of the override, whatever the catalog says
\* and after any number of catalog refreshes.
C2_OverrideWins == ~overrideIgnored

\* C3: no step of the automatic detection (the merge of a probe, a catalog
\* refresh, the migration of Store.init) changes or removes an entry that was
\* set by hand; only the commands do.
C3_OverrideKept ==
    \A p \in ProviderNames, k \in LowerNames :
        manual[p][k] # None => modelCompat[p][k] = manual[p][k]

C5_NoStaleJoin == ~joinedStale

\* C6: the calls of Store.writeSoon of one burst, each less than the delay
\* after the one before, produce exactly one write to the disk, and no write
\* begins before the last of them.
C6_OneWritePerBurst == burstWrites <= 1 /\ ~writeBeforeLast

\* C7: once the mutations have stopped and no timer and no write is left, the
\* document on the disk equals the state in memory.
C7_DiskEqualsMemory == Quiescent => TargetContent = Serialize(mem)

\* C8: in every state, also after a crash and when writes overlap, config.json
\* holds the complete serialization of one past state of the memory.
C8_TargetComplete == \E v \in 0..mem : TargetContent = Serialize(v)

\* C9: axiosWithRetry makes at most tries + 1 requests; when every request
\* fails with an error that is retried it makes exactly tries + 1 and throws
\* the error of the last one; it makes no request after one that succeeded.
C9_Budget ==
    /\ [](/\ requests <= tries + 1
          /\ (retryPc = "thrown" /\ allRetryable) =>
                (requests = tries + 1 /\ thrown = lastErr))
    /\ [][retryPc = "returned" => requests' = requests]_vars

\* C9, the budget of the default is spent on errors that are retried.
C9_Exhausted ==
    /\ retryPc = "thrown" /\ allRetryable
    /\ tries = DefaultTries /\ requests = DefaultTries + 1

\* C10, the classes of the claim with the class "no response" as the code has
\* it: an error of axios that carries no response.
C10_Retried(err) ==
    \/ err.status \in {429, 500, 502, 503, 504}
    \/ err.code \in {"ECONNRESET", "ETIMEDOUT", "ENOTFOUND"}
    \/ (err.isAxiosError /\ err.status = 0)

\* C10, the classes as the claim states them: any error with no response.
C10_RetriedAsStated(err) ==
    \/ err.status \in {429, 500, 502, 503, 504}
    \/ err.code \in {"ECONNRESET", "ETIMEDOUT", "ENOTFOUND"}
    \/ err.status = 0

\* C10, as the code has it: a failure with status 429, 500, 502, 503 or 504,
\* with a connection error code, or of axios with no response is followed by a
\* backoff and another request while budget remains; any other failure is
\* thrown at once, with no backoff and no further request.
C10_Classifier ==
    /\ retryPc = "sleep" => (C10_Retried(lastErr) /\ attempt < tries)
    /\ retryPc = "thrown" =>
          /\ thrown = lastErr
          /\ ~C10_Retried(lastErr) \/ attempt >= tries
          /\ sleeps = attempt /\ requests = attempt + 1

\* C10, a request of axios that ran into its timeout, with no response, is
\* being retried.
C10_NoResponseRetried ==
    /\ retryPc = "sleep"
    /\ lastErr.isAxiosError /\ lastErr.status = 0 /\ lastErr.code = "ECONNABORTED"

\* C10 as it is stated: every error with no response is retried while budget
\* remains.
C10_ClassifierAsStated ==
    /\ retryPc = "sleep" => (C10_RetriedAsStated(lastErr) /\ attempt < tries)
    /\ retryPc = "thrown" =>
          /\ thrown = lastErr
          /\ ~C10_RetriedAsStated(lastErr) \/ attempt >= tries
          /\ sleeps = attempt /\ requests = attempt + 1

\* C11: after any sequence of calls of pushHist a session holds at most
\* MAX_ITEMS turns, and they are the turns appended to it last, in the order
\* they were appended in; when every turn appended was of 1 KiB it holds all
\* of them up to MAX_ITEMS, so the last 50 of 60.
C11_LastTurnsKept ==
    \A id \in DOMAIN histories :
        LET h == histories[id]
            L == HistOf(histLog, id)
        IN /\ Len(h) <= MAX_ITEMS
           /\ Len(h) <= Len(L)
           /\ h = SubSeq(L, Len(L) - Len(h) + 1, Len(L))
           /\ (\A k \in 1..Len(L) : L[k].len = 1024)
                 => Len(h) = (IF Len(L) < MAX_ITEMS THEN Len(L) ELSE MAX_ITEMS)

\* C11, more than MAX_ITEMS turns were appended to a session and it holds
\* MAX_ITEMS of them.
C11_Trimmed ==
    \E id \in DOMAIN histories :
        Len(HistOf(histLog, id)) > MAX_ITEMS /\ Len(histories[id]) = MAX_ITEMS

\* C12 as it is stated: after every call of pushHist, for turns of any size,
\* the bytes of the session written are at most MAX_BYTES.
C12_SessionBytes ==
    (pushes > 0 /\ lastId \in DOMAIN histories)
        => sizeOfHist(histories[lastId]) <= MAX_BYTES

\* C13: after every call of pushHist the store holds at most
\* HISTORY_GLOBAL_MAX_SESSIONS sessions and at most HISTORY_GLOBAL_MAX_BYTES
\* bytes of turns.
C13_GlobalCaps ==
    /\ Cardinality(DOMAIN histories) <= HISTORY_GLOBAL_MAX_SESSIONS
    /\ TotalBytes(histories) <= HISTORY_GLOBAL_MAX_BYTES

\* C13, the last call of pushHist evicted sessions while the store held no
\* more than HISTORY_GLOBAL_MAX_SESSIONS of them: it was above its bytes.
C13_EvictedForBytes ==
    /\ evicted # {}
    /\ Cardinality(DOMAIN histories) + Cardinality(evicted) <= HISTORY_GLOBAL_MAX_SESSIONS

C15_OneRefresh ==
    Cardinality({w \in RefreshIds : refreshes[w].st = "run"}) <= 1

\* C16 as it is stated: a call of refreshModelCatalog(false), which only the
\* callbacks of setTimeout(..., 0) make, starts no enumeration while a refresh
\* is running, in every state earlier forced and unforced calls lead to.
C16_UnforcedJoins ==
    [][(refreshTimers' = refreshTimers - 1 /\ \E w \in RefreshIds : refreshes[w].st = "run")
          => refreshes' = refreshes]_vars

\* C17, as the code has it: a probe of resolveCompat that got no listing
\* returns the entry of modelCompat recorded for the pair while it ran, or with
\* no such entry the heuristic detectCompat; and until the next configuration
\* command no call for the pair begins or joins a probe again, as modelCompat
\* holds an entry for the pair.
C17_FailedProbe ==
    \A key \in PairKeys :
        probeLog[key].failed =>
            /\ probeLog[key].ret = (IF probeLog[key].entry # None THEN probeLog[key].entry
                                    ELSE detectCompat(key[2]))
            /\ ~probeLog[key].again
            /\ modelCompat[key[1]][key[2]] # None

\* C17, a probe got no listing, found no entry and returned the heuristic.
C17_HeuristicReturned ==
    \E key \in PairKeys :
        ByHeuristic(probeLog[key]) /\ probeLog[key].ret = detectCompat(key[2])

\* C17 as it is stated: a probe that got no listing returns detectCompat.
C17_HeuristicAlways ==
    \A key \in PairKeys : probeLog[key].failed => probeLog[key].ret = detectCompat(key[2])

\* C18 as it is stated: from the completion of a probe that found no override,
\* and as long as no configuration command runs, the catalog holds for the
\* lower-cased name the value the probe returned.
C18_EntryStays ==
    \A key \in PairKeys :
        (probeLog[key].ret # None /\ probeLog[key].entry = None)
            => catalog[key[2]] = probeLog[key].ret

\* C19 as it is stated: after a probe returned the heuristic and a refresh put
\* another family for the name into the catalog, the calls of resolveCompat
\* for the pair return the family of the catalog.
C19_Upgraded ==
    \A key \in PairKeys :
        ( /\ ByHeuristic(probeLog[key])
          /\ probeLog[key].recorded \notin {None, probeLog[key].ret}
          /\ probeLog[key].after # None )
            => probeLog[key].after = probeLog[key].recorded

\* C20: an adapter call makes the attempts in the order of the list; it
\* returns the response of the first attempt that succeeds and makes no
\* attempt after it; it is rejected only when every attempt of the list has
\* failed, and then with the error of the last attempt, which chatOpenAI of
\* ai.ts reports in a new Error that holds its status and its message.
C20_FirstSuccessLastError ==
    /\ \A k \in 1..Len(authLog) :
          authLog[k].i = k /\ (authLog[k].ok => k = Len(authLog))
    /\ Len(authLog) <= attempts
    /\ authPc = "returned" <=> (authLog # <<>> /\ authLog[Len(authLog)].ok)
    /\ authPc = "returned" => authResult = Len(authLog)
    /\ authPc = "thrown" <=> (Len(authLog) = attempts /\ ~authLog[attempts].ok)
    /\ authPc = "thrown" => authThrown = ThrownFor(authAdapter, authLog[attempts].err)

\* C20, a call with more than one attempt was rejected, and the first and the
\* last attempt had failed with different errors.
C20_AllFailed ==
    /\ authPc = "thrown"
    /\ attempts > 1
    /\ authLog[1].err # authLog[attempts].err
    /\ ThrownFor(authAdapter, authLog[1].err) # authThrown

\* C29 as it is stated: a probe of resolveCompat that was in flight when a
\* configuration command ran on its provider and removed the provider writes
\* nothing into modelCompat and into the catalog when it completes.
C29_StaleProbeSilent ==
    [][\A s \in ProbeIds :
          ( /\ probes[s].st = "run" /\ probes[s].stale
            /\ probes[s].name \notin Range(providers)
            /\ probes'[s].st = "free" )
              => (modelCompat' = modelCompat /\ catalog' = catalog)]_vars

\* C30 as it is stated: every model selector that is set names a provider
\* that is in Store.data.providers.
C30_SelectorsResolve ==
    \A k \in Kinds : models[k] # NoSel => models[k].provider \in Range(providers)

\* C28 as it is stated: at any time at most one timer of writeSoon is armed
\* and at most one call of atomicWriteJSON is in progress.
C28_OneTimerOneWrite ==
    /\ Cardinality({t \in TimerIds : timers[t].st = "armed"}) <= 1
    /\ Cardinality({t \in TimerIds : timers[t].st \in {"open", "write", "rename"}}) <= 1

\* The requests of the log made at the path with index p.
GemAt(p) == SelectSeq(gemLog, LAMBDA e : e.path = p)

\* The error says that the server has no such route: the status is 404 or
\* 405, or it is 400 and the text names an unknown or missing method or path.
RouteNotFound(err) ==
    \/ err.status \in {404, 405}
    \/ err.status = 400 /\ err.text \in {"unknown method"}

NoKnownVendor(plugin, baseUrl) ==
    LET u == LowerUrl(baseUrl)
    IN IF plugin = "ai"
          THEN \A sub \in {"generativelanguage.googleapis.com", "aiplatform.googleapis.com",
                           "anthropic.com", "aip.baidubce.com"} : ~Includes(u, sub)
          ELSE \A sub \in {"moonshot", "openai", "anthropic", "claude", "googleapis",
                           "gemini"} : ~Includes(u, sub)

\* C22 as it is stated: in both plugins buildAuthAttempts returns one attempt
\* for a provider with an authConfig, and for a provider without one whose
\* base URL has no known vendor name the three attempts bearer token,
\* x-api-key header, key query parameter, in this order.
C22_AttemptList ==
    baDone =>
        /\ baProvider.authConfig # NoAuthConfig => Len(baAttempts) = 1
        /\ (baProvider.authConfig = NoAuthConfig /\ NoKnownVendor(baPlugin, baProvider.baseUrl))
              => baAttempts = <<Bearer, XApiKey, KeyParam>>

\* C23: every segment splitMessage(text, reserve) returns has at most
\* max(1, 4096 - reserve) units, and for a text of at most that many units it
\* returns the text as the one segment.
C23_SegmentsFit ==
    txSplit =>
        LET limit == Max(1, 4096 - txReserve)
        IN /\ \A k \in 1..Len(txParts) : StrLen(txParts[k]) <= limit
           /\ StrLen(txText) <= limit => txParts = <<txText>>

\* C23, a text was split into three segments or more.
C23_SplitInMany == txSplit /\ Len(txParts) >= 3

\* C24 as it is stated: for a text longer than the limit the segments of
\* splitMessage, put together in order, are the text.
C24_Reconstructs ==
    (txSplit /\ StrLen(txText) > Limit(txReserve)) => ConcatAll(txParts, 1) = txText

\* C25 as it is stated: every chunk buildChunks returns, with header, spoiler
\* tags and postfix, has at most MAX_MSG units.
C25_ChunksFit ==
    txBuilt => \A i \in 1..Len(txChunks) : txChunks[i] <= MAX_MSG

\* C26: with the context enabled the turns of concurrent callChat calls are in
\* the sessions in the order the calls completed; a user turn of a call is in
\* the session of the call, has the text of the call, and is followed at once
\* by the assistant turn of the same call, which has the answer of the call;
\* an assistant turn that is not the first of its session follows the user
\* turn of its call; a call that failed, or has not completed, has no turn.
C26_TurnsInCompletionOrder ==
    \A id \in HistIds(histories) :
        LET h == histories[id]
        IN \A k \in 1..Len(h) :
              h[k].n \in CallIds =>
                  LET c == calls[h[k].n]
                  IN /\ c.st = "returned"
                     /\ c.id = id
                     /\ \A l \in 1..(k - 1) :
                            h[l].n \in CallIds => calls[h[l].n].seq <= c.seq
                     /\ h[k].role = "user" =>
                            /\ h[k].len = c.len
                            /\ k < Len(h)
                            /\ h[k + 1] = [role |-> "assistant", len |-> c.out, n |-> h[k].n]
                     /\ h[k].role = "assistant" =>
                            /\ h[k].len = c.out
                            /\ k > 1 => h[k - 1] = [role |-> "user", len |-> c.len, n |-> h[k].n]

\* C26, two calls on one session completed, the second call before the first,
\* and the session holds their four
\* turns.
C26_BothStored ==
    /\ calls[1].st = "returned" /\ calls[2].st = "returned" /\ calls[2].seq < calls[1].seq
    /\ \E id \in HistIds(histories) :
          /\ Len(histories[id]) = 4
          /\ histories[id][1].n = 2 /\ histories[id][3].n = 1

\* C27 as it is stated: the document is loaded and migrated once in a process,
\* also when handlers call Store.init before the first load has finished;
\* once an init has returned the data version stays 3; and nothing set in
\* Store.data after an init returned is discarded by another init.
C27_LoadedOnce ==
    /\ reloads = 0
    /\ reloads > 0 => initPc = "ready"
    /\ ~discarded

====
